---------------------------- MODULE Spec2Model ----------------------------
(***************************************************************************)
(* Model of the transform-and-upsert core of the research-papers pipeline  *)
(* (src/database/import_papers.py): the record normalisers, the two dedup  *)
(* passes, the three merge-on-conflict writes and process_paper, run as a  *)
(* load over a list of raw records against a store of three tables.        *)
(*                                                                         *)
(* Python values.  A value that may be None is a sequence of length <= 1:  *)
(* None is <<>> and the value v is <<v>>.  A dict is a function whose      *)
(* DOMAIN is the set of keys that are present, so d.get(k) and d.get(k,    *)
(* default) tell a missing key from a key holding None.  A string that the *)
(* code splits is held split: a URL is the sequence of its "/"-separated   *)
(* segments ("" is <<"">>, "W1" is <<"W1">>), a DOI is the sequence of its *)
(* pieces around the resolver prefix, an ORCID the sequence of its pieces  *)
(* around "orcid.org/".                                                    *)
(***************************************************************************)
EXTENDS Integers, Sequences, FiniteSets, TLC

None == <<>>
Some(v) == <<v>>

\* dict.get(k): the value under k, None when the key is missing.
Get(d, k) == IF k \in DOMAIN d THEN d[k] ELSE None

\* dict.get(k, default): the default only when the key is missing.
GetDefault(d, k, default) == IF k \in DOMAIN d THEN d[k] ELSE default

\* `x or []` and `x or {}` for a list or dict that may be None.
OrEmptyList(x) == IF x = None THEN <<>> ELSE x[1]
OrEmptyDict(x) == IF x = None THEN <<>> ELSE x[1]

\* bool(x) for a list or dict that may be None: None and the empty one are
\* false.
Truthy(x) == x # None /\ x[1] # <<>>

\* COALESCE(EXCLUDED.f, table.f) of the ON CONFLICT clauses.
\* A merge that takes the incoming value as it comes, null or not.
Overwrite(incoming, stored) == incoming

COALESCE(incoming, stored) == IF incoming # None THEN incoming ELSE stored

\* ------------------------------------------------------------------------
\* extract_id_from_url
\* ------------------------------------------------------------------------

EmptyString == <<"">>

\* `not url`: None or the empty string.  Otherwise the last "/"-separated
\* segment (the string itself when it holds no "/").
extract_id_from_url(url) ==
    IF url = None \/ url[1] = EmptyString THEN None
    ELSE Some(url[1][Len(url[1])])

\* `not paper_id` on the extracted id: None, or "" (a URL ending in "/").
IdMissing(id) == id = None \/ id[1] = ""

\* ------------------------------------------------------------------------
\* transform_paper_data
\* ------------------------------------------------------------------------

DoiPrefix == "https://doi.org/"

\* A DOI string is the sequence of its pieces, the resolver prefix being a
\* piece of its own.  doi.startswith(prefix) -> doi.replace(prefix, ""):
\* every occurrence of the prefix goes.  `doi or None`: "" becomes None.
StripDoi(doi) ==
    LET d == IF doi = None THEN <<>> ELSE doi[1]
        stripped == IF d # <<>> /\ d[1] = DoiPrefix
                    THEN SelectSeq(d, LAMBDA piece : piece # DoiPrefix)
                    ELSE d
    IN  IF stripped = <<>> THEN None ELSE Some(stripped)

\* next((a for a in authorships if a.get("author_position") == "first"),
\* None)
FirstAuthor(authorships, i) ==
    LET firsts == SelectSeq(SubSeq(authorships, i, Len(authorships)),
                            LAMBDA a : Get(a, "author_position") = Some("first"))
    IN  IF firsts = <<>> THEN None ELSE Some(firsts[1])

\* The lists lists[lo], ..., lists[hi] one after the other, as a loop that
\* extends one list with each of them builds it.
RECURSIVE ConcatRange(_, _, _)
ConcatRange(lists, lo, hi) ==
    IF lo > hi THEN <<>>
    ELSE IF lo = hi THEN lists[lo]
    ELSE LET mid == (lo + hi) \div 2
         IN  ConcatRange(lists, lo, mid) \o ConcatRange(lists, mid + 1, hi)

\* safe_get(authorship, "author", "display_name")
AuthorDisplayName(authorship) ==
    LET author == Get(authorship, "author")
    IN  IF author = None THEN None ELSE Get(author[1], "display_name")

\* The display names of one authorship's institutions that are truthy.
InstitutionNames(authorship) ==
    LET insts == OrEmptyList(Get(authorship, "institutions"))
        named == SelectSeq(insts, LAMBDA inst :
                     Get(inst, "display_name") \notin {None, Some("")})
    IN  [i \in 1..Len(named) |-> named[i]["display_name"][1]]

\* The truthy countries of one authorship.
CountryCodes(authorship) ==
    SelectSeq(OrEmptyList(Get(authorship, "countries")),
              LAMBDA c : c # "")

\* The loop over the authorships: every truthy institution name, and every
\* truthy country, in the order met.
AllInstitutions(authorships, i) ==
    ConcatRange([j \in 1..Len(authorships) |-> InstitutionNames(authorships[j])],
                i, Len(authorships))

AllCountries(authorships, i) ==
    ConcatRange([j \in 1..Len(authorships) |-> CountryCodes(authorships[j])],
                i, Len(authorships))

SeqRange(s) == {s[i] : i \in 1..Len(s)}

\* The first element, None for an empty list.
FirstOrNone(s) == IF s = <<>> THEN None ELSE Some(s[1])

\* sorted(concepts, key=score, reverse=True): a stable sort, greatest score
\* first; concepts of equal score keep their order.
ConceptScore(c) == GetDefault(c, "score", Some(0))[1]

RECURSIVE InsertByScore(_, _)
InsertByScore(sorted, c) ==
    IF sorted = <<>> THEN <<c>>
    ELSE IF ConceptScore(Head(sorted)) >= ConceptScore(c)
         THEN <<Head(sorted)>> \o InsertByScore(Tail(sorted), c)
         ELSE <<c>> \o sorted

RECURSIVE SortByScoreDesc(_, _)
SortByScoreDesc(concepts, i) ==
    IF i = 0 THEN <<>>
    ELSE InsertByScore(SortByScoreDesc(concepts, i - 1), concepts[i])

\* sorted() compares the keys: with two concepts or more, a score that is
\* null (the key present) raises TypeError.
SortRaises(concepts) ==
    /\ Len(concepts) >= 2
    /\ \E i \in 1..Len(concepts) : GetDefault(concepts[i], "score", Some(0)) = None

\* c.get("display_name", "").lower() of the relevance test (lines 253-257):
\* a display_name that is null (the key present) raises AttributeError.
LowerRaises(dicts) ==
    \E i \in 1..Len(dicts) : GetDefault(dicts[i], "display_name", Some("")) = None

TopN == 3

TopConcept(sorted, k) ==
    IF k <= TopN /\ Len(sorted) >= k THEN Get(sorted[k], "display_name")
    ELSE None

\* The flat paper row, or None when no identifier can be extracted or when
\* an exception is caught (lines 326-328).  The
\* columns kept are one or more of each kind the merge treats alike; the
\* venue, open-access, relevance and date columns that are left out are
\* coalesce-merged exactly like license.
transform_paper_data(paper) ==
    LET paper_id     == extract_id_from_url(Get(paper, "id"))
        primary_loc  == OrEmptyDict(Get(paper, "primary_location"))
        topics       == OrEmptyList(Get(paper, "topics"))
        concepts     == OrEmptyList(Get(paper, "concepts"))
        keywords     == OrEmptyList(Get(paper, "keywords"))
        top_concepts == SortByScoreDesc(concepts, Len(concepts))
        authorships  == OrEmptyList(Get(paper, "authorships"))
        first_author == FirstAuthor(authorships, 1)
        all_institutions == AllInstitutions(authorships, 1)
        all_countries    == AllCountries(authorships, 1)
        title == IF Get(paper, "title") \notin {None, Some("")}
                 THEN Get(paper, "title") ELSE Get(paper, "display_name")
    IN  IF IdMissing(paper_id) THEN None
        ELSE IF SortRaises(concepts) \/ LowerRaises(concepts)
                \/ LowerRaises(keywords) THEN None
        ELSE Some([
            paper_id               |-> paper_id[1],
            doi                    |-> StripDoi(Get(paper, "doi")),
            title                  |-> title,
            publication_year       |-> Get(paper, "publication_year"),
            publication_date       |-> Get(paper, "publication_date"),
            license                |-> Get(primary_loc, "license"),
            author_count           |-> Len(authorships),
            first_author_name      |-> IF first_author = None THEN None
                                       ELSE AuthorDisplayName(first_author[1]),
            institution_count      |-> Cardinality(SeqRange(all_institutions)),
            country_count          |-> Cardinality(SeqRange(all_countries)),
            first_institution      |-> FirstOrNone(all_institutions),
            cited_by_count         |-> GetDefault(paper, "cited_by_count", Some(0)),
            referenced_works_count |-> GetDefault(paper, "referenced_works_count", Some(0)),
            primary_topic          |-> IF topics = <<>> THEN None
                                       ELSE Get(topics[1], "display_name"),
            top_concept_1          |-> TopConcept(top_concepts, 1),
            top_concept_2          |-> TopConcept(top_concepts, 2),
            top_concept_3          |-> TopConcept(top_concepts, 3),
            keywords               |-> IF keywords = <<>> THEN None
                                       ELSE Some([i \in 1..Len(keywords) |->
                                                Get(keywords[i], "display_name")]),
            is_retracted           |-> GetDefault(paper, "is_retracted", Some(FALSE)),
            is_paratext            |-> GetDefault(paper, "is_paratext", Some(FALSE)),
            has_abstract           |-> Truthy(Get(paper, "abstract_inverted_index")) ])

\* ------------------------------------------------------------------------
\* transform_author_data, transform_paper_author_data
\* ------------------------------------------------------------------------

OrcidMarker == "orcid.org/"

\* An ORCID value is [kind |-> "str", parts |-> the pieces of the string
\* around "orcid.org/"] or a value of another JSON type, [kind |-> "int"].
\* `orcid and "orcid.org/" in orcid` raises TypeError on a truthy non-string.
OrcidRaises(orcid) == orcid # None /\ orcid[1].kind # "str"

\* orcid.split("orcid.org/")[-1] when the marker is in the string, then
\* `orcid or None`.
StripOrcid(orcid) ==
    IF orcid = None THEN None
    ELSE LET parts == orcid[1].parts
             last  == parts[Len(parts)]
         IN  IF last = "" THEN None ELSE Some(last)

\* The author row of one authorship sub-record; None when the sub-record
\* names no author id, and None when the body raises (the except clause).
transform_author_data(authorship) ==
    LET author       == OrEmptyDict(Get(authorship, "author"))
        author_id    == extract_id_from_url(Get(author, "id"))
        institutions == OrEmptyList(Get(authorship, "institutions"))
        countries    == OrEmptyList(Get(authorship, "countries"))
    IN  IF IdMissing(author_id) THEN None
        ELSE IF OrcidRaises(GetDefault(author, "orcid", None)) THEN None
        ELSE Some([
            author_id           |-> author_id[1],
            display_name        |-> GetDefault(author, "display_name",
                                               Some("Unknown Author")),
            orcid               |-> StripOrcid(GetDefault(author, "orcid", None)),
            primary_institution |-> IF institutions = <<>> THEN None
                                    ELSE Get(institutions[1], "display_name"),
            primary_country     |-> FirstOrNone(countries) ])

\* `xs if xs else None` for a list.
ListOrNone(xs) == IF xs = <<>> THEN None ELSE Some(xs)

\* The ids of one authorship's institutions whose "id" is truthy.
InstitutionIds(authorship) ==
    LET insts == OrEmptyList(Get(authorship, "institutions"))
        withId == SelectSeq(insts, LAMBDA inst :
                      Get(inst, "id") \notin {None, Some(EmptyString)})
    IN  [i \in 1..Len(withId) |-> extract_id_from_url(withId[i]["id"])]

\* The authorship row of one sub-record at 1-based position `sequence`;
\* None when the sub-record names no author id.
transform_paper_author_data(paper_id, authorship, sequence) ==
    LET author    == OrEmptyDict(Get(authorship, "author"))
        author_id == extract_id_from_url(Get(author, "id"))
    IN  IF IdMissing(author_id) THEN None
        ELSE Some([
            paper_id          |-> paper_id,
            author_id         |-> author_id[1],
            author_position   |-> Get(authorship, "author_position"),
            author_sequence   |-> sequence,
            is_corresponding  |-> GetDefault(authorship, "is_corresponding",
                                             Some(FALSE)),
            institution_names |-> ListOrNone(InstitutionNames(authorship)),
            institution_ids   |-> ListOrNone(InstitutionIds(authorship)),
            countries         |-> ListOrNone(OrEmptyList(Get(authorship, "countries"))) ])

\* The loop of process_paper over enumerate(authorships, start=1): the rows
\* of the sub-records each transform accepts, in list order.
AuthorsData(authorships, i) ==
    ConcatRange([j \in 1..Len(authorships) |->
                    LET a == transform_author_data(authorships[j])
                    IN  IF a = None THEN <<>> ELSE <<a[1]>>],
                i, Len(authorships))

PaperAuthorsData(paper_id, authorships, i) ==
    ConcatRange([j \in 1..Len(authorships) |->
                    LET pa == transform_paper_author_data(paper_id, authorships[j], j)
                    IN  IF pa = None THEN <<>> ELSE <<pa[1]>>],
                i, Len(authorships))

\* ------------------------------------------------------------------------
\* The two dedup passes
\* ------------------------------------------------------------------------

\* No dedup: every row is handed on.
DedupAuthorsNone(authors_data) == authors_data

\* A dedup that keeps the first row of each author id.
DedupAuthorsFirst(authors_data) ==
    LET firstAt == SelectSeq([i \in 1..Len(authors_data) |-> i], LAMBDA i :
                       \A j \in 1..(i - 1) :
                           authors_data[j].author_id # authors_data[i].author_id)
    IN  [k \in 1..Len(firstAt) |-> authors_data[firstAt[k]]]

\* {a["author_id"]: a for a in authors_data}.values(): one row per author
\* id, at the place of the id's first occurrence, holding the row of its
\* last occurrence.
DedupAuthors(authors_data) ==
    LET n == Len(authors_data)
        firstAt == SelectSeq([i \in 1..n |-> i], LAMBDA i :
                       \A j \in 1..(i - 1) :
                           authors_data[j].author_id # authors_data[i].author_id)
        lastOf(i) == CHOOSE j \in 1..n :
                        /\ authors_data[j].author_id = authors_data[i].author_id
                        /\ \A k \in (j + 1)..n :
                               authors_data[k].author_id # authors_data[i].author_id
    IN  [k \in 1..Len(firstAt) |-> authors_data[lastOf(firstAt[k])]]

\* The `seen` loop of upsert_paper_authors: the first row of each
\* (paper_id, author_id) pair, in list order; later ones are dropped.
DedupPaperAuthors(paper_authors_data) ==
    SelectSeq([i \in 1..Len(paper_authors_data) |-> i], LAMBDA i :
        \A j \in 1..(i - 1) :
            <<paper_authors_data[j].paper_id, paper_authors_data[j].author_id>>
              # <<paper_authors_data[i].paper_id, paper_authors_data[i].author_id>>)

\* A dedup that keeps the last row of each pair.
UniquePaperAuthorsLast(paper_authors_data) ==
    LET data == paper_authors_data
        keep == SelectSeq([i \in 1..Len(data) |-> i], LAMBDA i :
                    \A j \in (i + 1)..Len(data) :
                        <<data[j].paper_id, data[j].author_id>>
                          # <<data[i].paper_id, data[i].author_id>>)
    IN  [k \in 1..Len(keep) |-> data[keep[k]]]

UniquePaperAuthors(paper_authors_data) ==
    LET keep == DedupPaperAuthors(paper_authors_data)
    IN  [k \in 1..Len(keep) |-> paper_authors_data[keep[k]]]

\* ------------------------------------------------------------------------
\* The store: three tables, each a function from the keys that have a row
\* to the row.  Timestamps (updated_at, ingested_at, created_at) are not
\* kept.
\* ------------------------------------------------------------------------

EmptyTable == <<>>

\* ON CONFLICT (author_id) DO UPDATE SET ...: the row after the update.
MergeAuthor(stored, incoming) ==
    [author_id           |-> stored.author_id,
     display_name        |-> COALESCE(incoming.display_name, stored.display_name),
     orcid               |-> COALESCE(incoming.orcid, stored.orcid),
     primary_institution |-> COALESCE(incoming.primary_institution,
                                      stored.primary_institution),
     primary_country     |-> COALESCE(incoming.primary_country,
                                      stored.primary_country)]

\* The columns of papers that the update overwrites with EXCLUDED.column.
OverwrittenColumns ==
    {"title", "author_count", "institution_count", "country_count",
     "cited_by_count", "referenced_works_count",
     "is_retracted", "is_paratext", "has_abstract"}

\* An update under which a citation count never goes down.
MergePaperGreatest(stored, incoming) ==
    [c \in DOMAIN stored |->
        IF c = "cited_by_count"
        THEN (IF stored[c][1] > incoming[c][1] THEN stored[c] ELSE incoming[c])
        ELSE IF c = "paper_id" THEN stored[c]
        ELSE IF c \in OverwrittenColumns THEN incoming[c]
        ELSE COALESCE(incoming[c], stored[c])]

\* ON CONFLICT (paper_id) DO UPDATE SET ...: the row after the update.
MergePaper(stored, incoming) ==
    [paper_id               |-> stored.paper_id,
     doi                    |-> COALESCE(incoming.doi, stored.doi),
     title                  |-> incoming.title,
     publication_year       |-> COALESCE(incoming.publication_year,
                                         stored.publication_year),
     publication_date       |-> COALESCE(incoming.publication_date,
                                         stored.publication_date),
     license                |-> COALESCE(incoming.license, stored.license),
     author_count           |-> incoming.author_count,
     first_author_name      |-> COALESCE(incoming.first_author_name,
                                         stored.first_author_name),
     institution_count      |-> incoming.institution_count,
     country_count          |-> incoming.country_count,
     first_institution      |-> COALESCE(incoming.first_institution,
                                         stored.first_institution),
     cited_by_count         |-> incoming.cited_by_count,
     referenced_works_count |-> incoming.referenced_works_count,
     primary_topic          |-> COALESCE(incoming.primary_topic, stored.primary_topic),
     top_concept_1          |-> COALESCE(incoming.top_concept_1, stored.top_concept_1),
     top_concept_2          |-> COALESCE(incoming.top_concept_2, stored.top_concept_2),
     top_concept_3          |-> COALESCE(incoming.top_concept_3, stored.top_concept_3),
     keywords               |-> COALESCE(incoming.keywords, stored.keywords),
     is_retracted           |-> incoming.is_retracted,
     is_paratext            |-> incoming.is_paratext,
     has_abstract           |-> incoming.has_abstract]

\* ON CONFLICT (paper_id, author_id) DO UPDATE SET ...: the row after the
\* update.
MergePaperAuthor(stored, incoming) ==
    [paper_id          |-> stored.paper_id,
     author_id         |-> stored.author_id,
     author_position   |-> incoming.author_position,
     author_sequence   |-> incoming.author_sequence,
     is_corresponding  |-> incoming.is_corresponding,
     institution_names |-> COALESCE(incoming.institution_names,
                                    stored.institution_names),
     institution_ids   |-> COALESCE(incoming.institution_ids, stored.institution_ids),
     countries         |-> COALESCE(incoming.countries, stored.countries)]

\* INSERT ... VALUES %s ON CONFLICT (key) DO UPDATE, one table each: a row
\* whose key has no row is inserted as it comes, a row whose key has one is
\* merged into it.
\* The row a key ends with when the rows `rs` of that key are taken one
\* after the other: the first is inserted when the key has no row (stored
\* is None), every other one is merged into the row before it.
RECURSIVE MergeAuthorRows(_, _, _)
MergeAuthorRows(stored, rs, j) ==
    IF j > Len(rs) THEN stored[1]
    ELSE MergeAuthorRows(IF stored = None THEN Some(rs[j])
                         ELSE Some(MergeAuthor(stored[1], rs[j])),
                         rs, j + 1)

UpsertAuthorRows(table, rows, i) ==
    LET taken == SubSeq(rows, i, Len(rows))
        keys == {taken[j].author_id : j \in 1..Len(taken)}
    IN  [k \in DOMAIN table \cup keys |->
            IF k \notin keys THEN table[k]
            ELSE MergeAuthorRows(
                     IF k \in DOMAIN table THEN Some(table[k]) ELSE None,
                     SelectSeq(taken, LAMBDA row : row.author_id = k), 1)]

RECURSIVE UpsertPaperRows(_, _, _)
UpsertPaperRows(table, rows, i) ==
    IF i > Len(rows) THEN table
    ELSE LET k == rows[i].paper_id
         IN  UpsertPaperRows(IF k \in DOMAIN table
                             THEN [table EXCEPT ![k] = MergePaper(table[k], rows[i])]
                             ELSE table @@ (k :> rows[i]),
                             rows, i + 1)

RECURSIVE MergePaperAuthorRows(_, _, _)
MergePaperAuthorRows(stored, rs, j) ==
    IF j > Len(rs) THEN stored[1]
    ELSE MergePaperAuthorRows(IF stored = None THEN Some(rs[j])
                              ELSE Some(MergePaperAuthor(stored[1], rs[j])),
                              rs, j + 1)

UpsertPaperAuthorRows(table, rows, i) ==
    LET taken == SubSeq(rows, i, Len(rows))
        keys == {<<taken[j].paper_id, taken[j].author_id>> : j \in 1..Len(taken)}
    IN  [k \in DOMAIN table \cup keys |->
            IF k \notin keys THEN table[k]
            ELSE MergePaperAuthorRows(
                     IF k \in DOMAIN table THEN Some(table[k]) ELSE None,
                     SelectSeq(taken, LAMBDA row :
                                  <<row.paper_id, row.author_id>> = k), 1)]

\* The conflict keys of a batch, row by row.
AuthorKeys(rows) == [i \in 1..Len(rows) |-> rows[i].author_id]
PaperKeys(rows) == [i \in 1..Len(rows) |-> rows[i].paper_id]
PaperAuthorKeys(rows) ==
    [i \in 1..Len(rows) |-> <<rows[i].paper_id, rows[i].author_id>>]

\* RETURNING (xmax = 0) AS inserted: how many of the rows were inserted.
InsertedCount(table, keys) ==
    Cardinality({i \in 1..Len(keys) : keys[i] \notin DOMAIN table})

\* One statement may not touch a row twice: PostgreSQL rejects a batch that
\* holds the same conflict key twice.
HasDuplicateKeys(keys) ==
    \E i, j \in 1..Len(keys) : i < j /\ keys[i] = keys[j]

\* The foreign keys of paper_authors: every row refers to a stored paper
\* and a stored author.
ForeignKeysHold(papersTable, authorsTable, rows) ==
    \A i \in 1..Len(rows) :
        /\ rows[i].paper_id \in DOMAIN papersTable
        /\ rows[i].author_id \in DOMAIN authorsTable

\* ------------------------------------------------------------------------
\* ImportStats
\* ------------------------------------------------------------------------

ZeroStats ==
    [papers_inserted |-> 0, papers_updated |-> 0, papers_failed |-> 0,
     authors_inserted |-> 0, authors_updated |-> 0, authors_failed |-> 0,
     paper_authors_inserted |-> 0, paper_authors_updated |-> 0,
     paper_authors_failed |-> 0, total_papers_processed |-> 0]

\* ------------------------------------------------------------------------
\* Raw input records (the shape of the external API)
\* ------------------------------------------------------------------------

Url(id) == <<"https:", "", "openalex.org", id>>

InstX == [id |-> Some(Url("I1")), display_name |-> Some("X")]
InstY == [id |-> Some(Url("I2")), display_name |-> Some("Y")]

AuthorName(aid) == IF aid = "A1" THEN "Ann" ELSE "Bob"

\* One authorship sub-record: author `aid`, the given institution list and
\* author_position, no ORCID.
Authorship(aid, insts, position) ==
    [author           |-> Some([id |-> Some(Url(aid)),
                                display_name |-> Some(AuthorName(aid))]),
     institutions     |-> Some(insts),
     author_position  |-> Some(position)]

\* A sub-record whose "orcid" is a number, and one that names no author.
AuthorshipBadOrcid(aid, position) ==
    [author           |-> Some([id |-> Some(Url(aid)),
                                display_name |-> Some(AuthorName(aid)),
                                orcid |-> Some([kind |-> "int"])]),
     institutions     |-> Some(<<InstX>>),
     author_position  |-> Some(position)]

AuthorshipNoAuthor ==
    [author |-> None, institutions |-> Some(<<InstY>>),
     author_position |-> Some("middle")]

\* The lists of length <= n over a set of sub-records.
RECURSIVE ListsUpTo(_, _)
ListsUpTo(S, n) ==
    IF n = 0 THEN {<<>>}
    ELSE LET shorter == ListsUpTo(S, n - 1)
         IN  shorter \cup {Append(l, x) : l \in {m \in shorter : Len(m) = n - 1},
                                          x \in S}

\* A raw paper record with the given id, title and authorship list, every
\* other key missing.
Paper(id, title, authorships) ==
    [id |-> id, title |-> title, authorships |-> Some(authorships)]

\* ------------------------------------------------------------------------
\* State
\* ------------------------------------------------------------------------

VARIABLES
    papers,         \* table papers: paper_id -> row
    authors,        \* table authors: author_id -> row
    paper_authors,  \* table paper_authors: <<paper_id, author_id>> -> row
    stats,          \* the ImportStats of the load in progress
    pc,             \* "idle", or where the load stands: "next" (the loop over
                    \* the records), "authors", "paper", "links" (the write
                    \* process_paper issues next), "done", "stopped"
    rec,            \* the raw record process_paper is working on, or None
    pre,            \* the three tables as process_paper found them, or None
    n,              \* records of the input list handled so far in this load
    batch,          \* the input list, when the load is one that is run again
    run,            \* which run over `batch` this is (0: no batch)
    snap,           \* the tables at the end of the first run over `batch`
    ref,            \* the tables an undisturbed load of `batch` ends with
    clean,          \* the store took every write it was sent since the batch
                    \* was first started: no rejection of its own, no lost
                    \* connection (a write it refuses for the rows it is
                    \* handed leaves `clean` as it is)
    conn_closed,    \* conn.closed of the connection the load in progress
                    \* writes through (FALSE when no load is in progress)
    interrupted,    \* a run over `batch` was interrupted
    stage,          \* where run_pipeline stands: "off" (no pipeline process),
                    \* "connect", "fetch", "schema", "load", "loading",
                    \* "validate", "finish", "exit"
    flags,          \* the arguments and the configuration of the pipeline run
    fetched,        \* the content of the JSON file FETCH saved, or None
    trace,          \* the stages executed in this run, each with its result
    exit_code,      \* the exit code of the pipeline process, or None
    at_start,       \* the tables as the pipeline run found them, or None
    test_config,    \* TestRunner.config: the validator's configuration
    queries,        \* per category, how many queries its SQL file holds
    results,        \* TestRunner.results: the TestResults recorded so far
    category_results, \* the results list of the category being run
    tpc,            \* where run_all_tests stands: "off", "category" (the
                    \* loop over the categories), "query" (the loop over a
                    \* category's queries), "returned", "fatal"
    cat,            \* the position in test_categories (1-based)
    qi,             \* the position in the queries of the category (1-based)
    all_passed,     \* what run_all_tests returned, or None
    simple_tests,   \* what the last run_data_quality_tests found, or None
    rpc,            \* where retry_with_exponential_backoff stands: "off",
                    \* "call" (about to call func), "sleep" (about to wait),
                    \* "returned", "raised"
    max_retries,    \* its argument max_retries
    initial_delay,  \* its argument initial_delay
    attempt,        \* its loop variable
    delay,          \* its variable delay
    calls,          \* how many times func was called
    waits,          \* the delays slept, in order
    retry_result    \* what it returned (None: the Python None), or the
                    \* number of the call whose error it raised

tables == <<papers, authors, paper_authors>>
rerunVars == <<batch, run, snap, ref, clean, interrupted>>
pipeVars == <<stage, flags, fetched, trace, exit_code, at_start>>
retryVars == <<rpc, max_retries, initial_delay, attempt, delay, calls, waits,
               retry_result>>
checkVars == <<test_config, queries, results, category_results, tpc, cat, qi,
               all_passed, simple_tests, retryVars>>
loadVars == <<papers, authors, paper_authors, stats, pc, rec, pre, n,
              batch, run, snap, ref, clean, interrupted, conn_closed>>
vars == <<papers, authors, paper_authors, stats, pc, rec, pre, n,
          batch, run, snap, ref, clean, interrupted, conn_closed,
          stage, flags, fetched, trace, exit_code, at_start,
          test_config, queries, results, category_results, tpc, cat, qi,
          all_passed, simple_tests,
          rpc, max_retries, initial_delay, attempt, delay, calls, waits,
          retry_result>>

Store == [papers |-> papers, authors |-> authors, paper_authors |-> paper_authors]

EmptyStore ==
    [papers |-> EmptyTable, authors |-> EmptyTable, paper_authors |-> EmptyTable]

\* ------------------------------------------------------------------------
\* process_paper, as functions of the tables and the raw record
\* ------------------------------------------------------------------------

Authorships(r) == OrEmptyList(Get(r, "authorships"))

\* paper_data['title'][:50] in the debug line raises TypeError on a None
\* title; the except clause of process_paper turns it into a failure.
TitleRaises(paper_data) == paper_data.title = None

\* What process_paper does before its first write: FALSE when the record is
\* given up (no paper row, or the debug line raised).
TransformSucceeds(r) ==
    /\ transform_paper_data(r) # None
    /\ ~TitleRaises(transform_paper_data(r)[1])

PaperData(r) == transform_paper_data(r)[1]

\* The batches handed to the three statements.
AuthorsBatch(r) == DedupAuthors(AuthorsData(Authorships(r), 1))
PapersBatch(r) == <<PaperData(r)>>
PaperAuthorsBatch(r) ==
    UniquePaperAuthors(PaperAuthorsData(PaperData(r).paper_id, Authorships(r), 1))

\* What the store does with a batch write on an open connection:
\*   "ok"          it takes it;
\*   "execute"     the statement is rejected (execute_values raises: a
\*                 constraint of the schema, a lock, a timeout) and the
\*                 rollback of the except clause goes through;
\*   "commit"      the statement runs, its returned rows are counted, and
\*                 conn.commit() raises (a deferred constraint, a
\*                 serialization failure); the rollback goes through;
\*   "lost"        the connection is lost while the statement runs:
\*                 execute_values raises OperationalError, psycopg2 marks
\*                 the connection closed, and conn.rollback(), the first
\*                 statement of the except clause, raises InterfaceError,
\*                 so the failed counter that follows it is not reached;
\*   "commit_lost" the statement runs, its returned rows are counted, and
\*                 the connection is lost at conn.commit(): the rollback
\*                 raises in the same way.  The rows are not committed.
\* On a connection that is closed already, conn.cursor() raises
\* InterfaceError whatever the store would answer, and the rollback raises
\* again.
StoreAnswers == {"ok", "execute", "commit", "lost", "commit_lost"}

\* The write ends with conn.rollback() raising, before anything is counted
\* by the loop over the returned rows: the connection was closed before
\* the write, or is lost while the statement runs.
RollbackRaises(answer) == conn_closed \/ answer = "lost"

\* `clean` after a write that did not go through: a refusal that is the
\* store's answer to the rows themselves (answer "ok": a key twice in the
\* statement, a foreign key) is no fault of the store.
CleanAfter(answer) == IF answer = "ok" THEN clean ELSE run = 0

\* Whether the store takes the batch: `ok` is the store's own answer, on
\* top of which come the one statement touching a key twice and, for
\* paper_authors, the foreign keys.
AuthorsAccepted(S, r, ok) ==
    ok /\ ~HasDuplicateKeys(AuthorKeys(AuthorsBatch(r)))
PapersAccepted(S, r, ok) ==
    ok /\ ~HasDuplicateKeys(PaperKeys(PapersBatch(r)))
PaperAuthorsAccepted(S, r, ok) ==
    /\ ok
    /\ ~HasDuplicateKeys(PaperAuthorKeys(PaperAuthorsBatch(r)))
    /\ ForeignKeysHold(S.papers, S.authors, PaperAuthorsBatch(r))

\* The tables after each committed statement.
AuthorsWritten(S, r) ==
    [S EXCEPT !.authors = UpsertAuthorRows(S.authors, AuthorsBatch(r), 1)]
PapersWritten(S, r) ==
    [S EXCEPT !.papers = UpsertPaperRows(S.papers, PapersBatch(r), 1)]
\* A write that replaces the paper's authorship rows by the record's: the
\* rows of authors the record no longer lists are deleted.
PaperAuthorsReplaced(S, r) ==
    LET rows == PaperAuthorsBatch(r)
        kept == {k \in DOMAIN S.paper_authors : k[1] # PaperData(r).paper_id}
    IN  [S EXCEPT !.paper_authors =
            UpsertPaperAuthorRows([k \in kept |-> S.paper_authors[k]], rows, 1)]

PaperAuthorsWritten(S, r) ==
    [S EXCEPT !.paper_authors =
        UpsertPaperAuthorRows(S.paper_authors, PaperAuthorsBatch(r), 1)]

\* execute_values(..., page_size=100)
PageSize == 100

\* execute_values without fetch=True runs one statement per page of
\* page_size rows, and the cursor keeps the rows returned by the last
\* statement only: what cursor.fetchall() then yields.
LastPage(keys) ==
    LET start == ((Len(keys) - 1) \div PageSize) * PageSize
    IN  SubSeq(keys, start + 1, Len(keys))

\* The counters after a committed statement over rows of the given keys:
\* the loop over cursor.fetchall().
Counted(st, inserted, updated, table, keys) ==
    LET returned == LastPage(keys)
        ins == InsertedCount(table, returned)
    IN  [st EXCEPT ![inserted] = @ + ins,
                   ![updated] = @ + (Len(returned) - ins)]

\* The counters when the except clause of an upsert function is reached:
\* the loop over cursor.fetchall() precedes conn.commit() inside the try, so
\* the rows of a statement that ran (`ran`) are already counted as inserted
\* or updated when the commit is rejected or lost, and the rollback leaves
\* them counted.
CountedAtError(st, inserted, updated, table, keys, ran) ==
    IF ran THEN Counted(st, inserted, updated, table, keys) ELSE st

\* process_paper on tables S with every write taken by the store, as far as
\* the statements themselves allow.
ProcessPaper(S, r) ==
    IF ~TransformSucceeds(r) THEN S
    ELSE LET S1 == IF AuthorsBatch(r) = <<>> THEN S ELSE AuthorsWritten(S, r)
             S2 == PapersWritten(S1, r)
         IN  IF AuthorsBatch(r) # <<>> /\ ~AuthorsAccepted(S, r, TRUE) THEN S
             ELSE IF ~PapersAccepted(S1, r, TRUE) THEN S1
             ELSE IF PaperAuthorsBatch(r) = <<>> THEN S2
             ELSE IF ~PaperAuthorsAccepted(S2, r, TRUE) THEN S2
             ELSE PaperAuthorsWritten(S2, r)

\* for paper in papers: process_paper(paper, ...)
RECURSIVE LoadAll(_, _, _)
LoadAll(S, list, i) ==
    IF i > Len(list) THEN S ELSE LoadAll(ProcessPaper(S, list[i]), list, i + 1)

\* ------------------------------------------------------------------------
\* Bounds and input sets
\* ------------------------------------------------------------------------

MaxBatch == 1         \* records in one input list of a load of any records
MaxAuthorships == 2   \* sub-records in one authorship list
MaxRerunBatch == 2    \* records in an input list that is loaded twice
MaxFetched == 2       \* records in the file the FETCH stage saves
MaxQueries == 2       \* queries in the SQL file of one test category
MaxChecks == 3        \* queries in the SQL files of all categories
MaxFailures == 1      \* the failure count a query returns
MaxStageChecks == 1   \* checks of a battery run by the VALIDATE stage
MaxRetries == 5       \* the max_retries of a call of the retry helper
MaxInitialDelay == 2  \* its initial_delay

\* ------------------------------------------------------------------------
\* Actions
\* ------------------------------------------------------------------------

Init ==
    /\ papers = EmptyTable
    /\ authors = EmptyTable
    /\ paper_authors = EmptyTable
    /\ stats = ZeroStats
    /\ pc = "idle"
    /\ rec = None
    /\ pre = None
    /\ n = 0
    /\ batch = <<>>
    /\ run = 0
    /\ snap = None
    /\ ref = None
    /\ clean = TRUE
    /\ interrupted = FALSE
    /\ conn_closed = FALSE
    /\ stage = "off"
    /\ flags = None
    /\ fetched = None
    /\ trace = <<>>
    /\ exit_code = None
    /\ at_start = None
    /\ test_config = None
    /\ queries = <<>>
    /\ results = <<>>
    /\ category_results = <<>>
    /\ tpc = "off"
    /\ cat = 0
    /\ qi = 0
    /\ all_passed = None
    /\ simple_tests = None
    /\ rpc = "off"
    /\ max_retries = 0
    /\ initial_delay = 0
    /\ attempt = 0
    /\ delay = 0
    /\ calls = 0
    /\ waits = <<>>
    /\ retry_result = None

\* A load starts: a new ImportStats, then the loop over the input list.
StartLoad ==
    /\ pc = "idle"
    /\ stats' = ZeroStats
    /\ n' = 0
    /\ pc' = "next"
    /\ run = 0
    /\ conn_closed' = FALSE
    /\ UNCHANGED <<tables, rec, pre, rerunVars>>

\* The except clause of process_paper: the record is counted as failed and
\* the loop goes on with the next one.
GiveUp(st) ==
    /\ stats' = [st EXCEPT !.papers_failed = @ + 1]
    /\ pc' = "next"
    /\ n' = n + 1
    /\ rec' = None
    /\ pre' = None

\* A process_paper that writes the authors of a record before it looks at
\* the paper row.
process_paper_authors_first(r) ==
    /\ pc = "next"
    /\ IF TransformSucceeds(r)
       THEN /\ rec' = Some(r)
            /\ pre' = Some(Store)
            /\ pc' = "authors"
            /\ UNCHANGED <<stats, n, tables>>
       ELSE /\ GiveUp(stats)
            /\ authors' = UpsertAuthorRows(authors, AuthorsBatch(r), 1)
            /\ UNCHANGED <<papers, paper_authors>>
    /\ UNCHANGED <<rerunVars, conn_closed>>

\* process_paper up to its first write: the transforms.
process_paper(r) ==
    /\ pc = "next"
    /\ IF TransformSucceeds(r)
       THEN /\ rec' = Some(r)
            /\ pre' = Some(Store)
            /\ pc' = "authors"
            /\ UNCHANGED <<stats, n>>
       ELSE GiveUp(stats)
    /\ UNCHANGED <<tables, rerunVars, conn_closed>>

\* The write leaves its upsert function with the connection closed: the
\* rollback raised, or the statement ran (`accepted`) and the connection
\* was lost at the commit.
ConnectionLost(answer, accepted) ==
    RollbackRaises(answer) \/ (answer = "commit_lost" /\ accepted)

\* The statement ran and its returned rows were counted, and the commit did
\* not go through.
RanUncommitted(answer, accepted) ==
    /\ ~RollbackRaises(answer)
    /\ answer \in {"commit", "commit_lost"}
    /\ accepted

\* An author write whose rejection is counted and swallowed: process_paper
\* goes on to the paper write.
upsert_authors_swallowing(answer) ==
    /\ pc = "authors"
    /\ LET r == rec[1]
           rows == AuthorsBatch(r)
           accepted == AuthorsAccepted(Store, r, TRUE)
           st == CountedAtError(stats, "authors_inserted", "authors_updated",
                                authors, AuthorKeys(rows),
                                RanUncommitted(answer, accepted))
       IN  IF rows = <<>>
           THEN /\ pc' = "paper"
                /\ UNCHANGED <<tables, stats, rec, pre, n, clean, conn_closed>>
           ELSE IF ~ConnectionLost(answer, accepted)
                   /\ AuthorsAccepted(Store, r, answer = "ok")
           THEN /\ authors' = AuthorsWritten(Store, r).authors
                /\ stats' = Counted(stats, "authors_inserted", "authors_updated",
                                    authors, AuthorKeys(rows))
                /\ pc' = "paper"
                /\ UNCHANGED <<papers, paper_authors, rec, pre, n, clean,
                               conn_closed>>
           ELSE IF ConnectionLost(answer, accepted)
           THEN /\ GiveUp(st)
                /\ conn_closed' = TRUE
                /\ clean' = (run = 0)
                /\ UNCHANGED tables
           ELSE /\ stats' = [st EXCEPT !.authors_failed = @ + Len(rows)]
                /\ pc' = "paper"
                /\ clean' = CleanAfter(answer)
                /\ UNCHANGED <<tables, rec, pre, n, conn_closed>>
    /\ UNCHANGED <<batch, run, snap, ref, interrupted>>

\* 1. upsert_authors, skipped for an empty list.  A rejected write is
\* rolled back and counted as failed, on top of what the loop over the
\* returned rows had counted before a rejected commit.  When the rollback
\* raises (the connection is closed) the error that reaches process_paper
\* is the rollback's, authors_failed is not raised, and the connection
\* stays closed for the records that follow.
upsert_authors(answer) ==
    /\ pc = "authors"
    /\ LET r == rec[1]
           rows == AuthorsBatch(r)
           accepted == AuthorsAccepted(Store, r, TRUE)
           st == CountedAtError(stats, "authors_inserted", "authors_updated",
                                authors, AuthorKeys(rows),
                                RanUncommitted(answer, accepted))
       IN  IF rows = <<>>
           THEN /\ pc' = "paper"
                /\ UNCHANGED <<tables, stats, rec, pre, n, clean, conn_closed>>
           ELSE IF ~ConnectionLost(answer, accepted)
                   /\ AuthorsAccepted(Store, r, answer = "ok")
           THEN /\ authors' = AuthorsWritten(Store, r).authors
                /\ stats' = Counted(stats, "authors_inserted", "authors_updated",
                                    authors, AuthorKeys(rows))
                /\ pc' = "paper"
                /\ UNCHANGED <<papers, paper_authors, rec, pre, n, clean,
                               conn_closed>>
           ELSE IF ConnectionLost(answer, accepted)
           THEN /\ GiveUp(st)
                /\ conn_closed' = TRUE
                /\ clean' = (run = 0)
                /\ UNCHANGED tables
           ELSE /\ GiveUp([st EXCEPT !.authors_failed = @ + Len(rows)])
                /\ clean' = CleanAfter(answer)
                /\ UNCHANGED <<tables, conn_closed>>
    /\ UNCHANGED <<batch, run, snap, ref, interrupted>>

\* A paper write whose rejection is counted and swallowed: process_paper
\* goes on to the authorship write.
upsert_papers_swallowing(answer) ==
    /\ pc = "paper"
    /\ LET r == rec[1]
           rows == PapersBatch(r)
           accepted == PapersAccepted(Store, r, TRUE)
           st == CountedAtError(stats, "papers_inserted", "papers_updated",
                                papers, PaperKeys(rows),
                                RanUncommitted(answer, accepted))
       IN  IF ~ConnectionLost(answer, accepted)
              /\ PapersAccepted(Store, r, answer = "ok")
           THEN /\ papers' = PapersWritten(Store, r).papers
                /\ stats' = Counted(stats, "papers_inserted", "papers_updated",
                                    papers, PaperKeys(rows))
                /\ pc' = "links"
                /\ UNCHANGED <<authors, paper_authors, rec, pre, n, clean,
                               conn_closed>>
           ELSE IF ConnectionLost(answer, accepted)
           THEN /\ GiveUp(st)
                /\ conn_closed' = TRUE
                /\ clean' = (run = 0)
                /\ UNCHANGED tables
           ELSE /\ stats' = [st EXCEPT !.papers_failed = @ + Len(rows)]
                /\ pc' = "links"
                /\ clean' = CleanAfter(answer)
                /\ UNCHANGED <<tables, rec, pre, n, conn_closed>>
    /\ UNCHANGED <<batch, run, snap, ref, interrupted>>

\* 2. upsert_papers on the one paper row.
upsert_papers(answer) ==
    /\ pc = "paper"
    /\ LET r == rec[1]
           rows == PapersBatch(r)
           accepted == PapersAccepted(Store, r, TRUE)
           st == CountedAtError(stats, "papers_inserted", "papers_updated",
                                papers, PaperKeys(rows),
                                RanUncommitted(answer, accepted))
       IN  IF ~ConnectionLost(answer, accepted)
              /\ PapersAccepted(Store, r, answer = "ok")
           THEN /\ papers' = PapersWritten(Store, r).papers
                /\ stats' = Counted(stats, "papers_inserted", "papers_updated",
                                    papers, PaperKeys(rows))
                /\ pc' = "links"
                /\ UNCHANGED <<authors, paper_authors, rec, pre, n, clean,
                               conn_closed>>
           ELSE IF ConnectionLost(answer, accepted)
           THEN /\ GiveUp(st)
                /\ conn_closed' = TRUE
                /\ clean' = (run = 0)
                /\ UNCHANGED tables
           ELSE /\ GiveUp([st EXCEPT !.papers_failed = @ + Len(rows)])
                /\ clean' = CleanAfter(answer)
                /\ UNCHANGED <<tables, conn_closed>>
    /\ UNCHANGED <<batch, run, snap, ref, interrupted>>

\* The record is done: total_papers_processed += 1, return True.
Processed(st) ==
    /\ stats' = [st EXCEPT !.total_papers_processed = @ + 1]
    /\ pc' = "next"
    /\ n' = n + 1
    /\ rec' = None
    /\ pre' = None

\* 3. upsert_paper_authors, skipped for an empty list.
upsert_paper_authors(answer) ==
    /\ pc = "links"
    /\ LET r == rec[1]
           rows == PaperAuthorsBatch(r)
           accepted == PaperAuthorsAccepted(Store, r, TRUE)
           st == CountedAtError(stats, "paper_authors_inserted",
                                "paper_authors_updated",
                                paper_authors, PaperAuthorKeys(rows),
                                RanUncommitted(answer, accepted))
       IN  IF rows = <<>>
           THEN /\ Processed(stats)
                /\ UNCHANGED <<tables, clean, conn_closed>>
           ELSE IF ~ConnectionLost(answer, accepted)
                   /\ PaperAuthorsAccepted(Store, r, answer = "ok")
           THEN /\ paper_authors' = PaperAuthorsWritten(Store, r).paper_authors
                /\ Processed(Counted(stats, "paper_authors_inserted",
                                     "paper_authors_updated",
                                     paper_authors, PaperAuthorKeys(rows)))
                /\ UNCHANGED <<papers, authors, clean, conn_closed>>
           ELSE IF ConnectionLost(answer, accepted)
           THEN /\ GiveUp(st)
                /\ conn_closed' = TRUE
                /\ clean' = (run = 0)
                /\ UNCHANGED tables
           ELSE /\ GiveUp([st EXCEPT !.paper_authors_failed = @ + Len(rows)])
                /\ clean' = CleanAfter(answer)
                /\ UNCHANGED <<tables, conn_closed>>
    /\ UNCHANGED <<batch, run, snap, ref, interrupted>>

\* The input list is exhausted: the summary is logged and the ImportStats
\* dropped.
EndLoad ==
    /\ pc = "next"
    /\ run = 0
    /\ pc' = "idle"
    /\ stats' = ZeroStats
    /\ n' = 0
    /\ conn_closed' = FALSE
    /\ UNCHANGED <<tables, rec, pre, rerunVars>>

\* The process is stopped by a signal between two statements: what is
\* committed stays, nothing else happens.
Interrupt ==
    /\ pc \in {"next", "authors", "paper", "links"}
    /\ pc' = IF run = 0 THEN "idle" ELSE "stopped"
    /\ rec' = None
    /\ pre' = None
    /\ stats' = ZeroStats
    /\ n' = 0
    /\ interrupted' = (run # 0)
    /\ conn_closed' = FALSE
    /\ UNCHANGED <<tables, batch, run, snap, ref, clean>>

\* load_papers_to_database(papers) on a list that will be loaded again: an
\* empty list returns at once, any other gets a new ImportStats and the
\* loop.  `ref` is what the load leaves when nothing disturbs it.
StartBatch(list) ==
    /\ pc = "idle"
    /\ run = 0
    /\ list # <<>>
    /\ batch' = list
    /\ run' = 1
    /\ ref' = Some(LoadAll(Store, list, 1))
    /\ clean' = TRUE
    /\ conn_closed' = FALSE
    /\ stats' = ZeroStats
    /\ n' = 0
    /\ pc' = "next"
    /\ UNCHANGED <<tables, rec, pre, snap, interrupted>>

\* for paper in papers: the next record of the list.
NextOfBatch ==
    /\ run > 0
    /\ n < Len(batch)
    /\ process_paper(batch[n + 1])

\* The list is exhausted: the load returns, its ImportStats still there to
\* be read, and its connection is dropped (get_connection's finally).  The
\* tables at the end of the first run are remembered.
EndRun ==
    /\ pc = "next"
    /\ run > 0
    /\ n = Len(batch)
    /\ pc' = IF run = 1 THEN "done" ELSE "finished"
    /\ snap' = IF run = 1 THEN Some(Store) ELSE snap
    /\ conn_closed' = FALSE
    /\ UNCHANGED <<tables, stats, rec, pre, n, batch, run, ref, clean, interrupted>>

\* The same list is loaded again from its first record, after the first
\* run has ended or has been stopped.
Rerun ==
    /\ pc \in {"done", "stopped"}
    /\ run = 1
    /\ run' = 2
    /\ stats' = ZeroStats
    /\ n' = 0
    /\ pc' = "next"
    /\ conn_closed' = FALSE
    /\ UNCHANGED <<tables, rec, pre, batch, snap, ref, clean, interrupted>>

\* ------------------------------------------------------------------------
\* The pipeline process: main and run_pipeline
\* ------------------------------------------------------------------------

\* should_skip_tests and should_force_store of run_pipeline: the argument
\* or the configuration.
ShouldSkipTests(f) == f.skip_quality_tests \/ f.config_skip_quality_tests

\* A force flag read from the argument alone.
ForceByArgument(f) == f.force_store

ShouldForceStore(f) == f.force_store \/ f.config_force_store

\* run_pipeline returns and main exits: 0 for True, 1 for False.
Exit(success) ==
    /\ stage' = "exit"
    /\ exit_code' = Some(IF success THEN 0 ELSE 1)

\* import_papers.reset_doi_tracking, which pipeline.py imports (line 43) and
\* calls before a load (line 290) and which import_papers.py does not
\* define: it empties the record of the DOIs seen by earlier loads, a
\* record no statement of the loader reads; the tables are not touched.
reset_doi_tracking == UNCHANGED tables

\* main: the pipeline process starts with its arguments and configuration;
\* nothing of an earlier process is left but the tables.  `started` is
\* false when the process ends before run_pipeline is entered: the import
\* of a name its module does not define (ImportError, line 43), or a
\* configuration file that is not valid YAML (sys.exit(1), lines 68-70);
\* its arguments are then never used.
main(f, started) ==
    /\ stage \in {"off", "exit"}
    /\ pc \in {"idle", "done", "stopped"}
    /\ IF started
       THEN stage' = "connect" /\ exit_code' = None /\ flags' = Some(f)
       ELSE Exit(FALSE) /\ flags' = None
    /\ fetched' = None
    /\ trace' = <<>>
    /\ at_start' = Some(Store)
    /\ pc' = "idle"
    /\ stats' = ZeroStats
    /\ n' = 0
    /\ rec' = None
    /\ pre' = None
    /\ batch' = <<>>
    /\ run' = 0
    /\ snap' = None
    /\ ref' = None
    /\ clean' = TRUE
    /\ interrupted' = FALSE
    /\ conn_closed' = FALSE
    /\ UNCHANGED tables

\* DatabaseConfig(): an error here is caught by run_pipeline, which returns
\* False before any stage.
verify_connection(ok) ==
    /\ stage = "connect"
    /\ IF ok THEN stage' = "fetch" /\ UNCHANGED exit_code ELSE Exit(FALSE)
    /\ UNCHANGED <<loadVars, flags, fetched, trace, at_start>>

\* Stage 1: the path of the saved JSON file, or None.  `result` is None or
\* the list of records saved.
fetch_papers_from_api(result) ==
    /\ stage = "fetch"
    /\ trace' = Append(trace, <<"FETCH", result # None>>)
    /\ IF result # None
       THEN fetched' = result /\ stage' = "schema" /\ UNCHANGED exit_code
       ELSE Exit(FALSE) /\ UNCHANGED fetched
    /\ UNCHANGED <<loadVars, flags, at_start>>

\* The tables after the schema stage: deploy_schema executes the schema
\* file and commits (deploy_schema.py 94-97) unless deployment is disabled
\* or the run is a dry run.  `drops`: the statements executed drop the
\* existing tables before they create them, as lines 86-89 announce.
SchemaTables(f, drops) ==
    IF f.deploy_schema /\ ~f.dry_run /\ drops
    THEN /\ papers' = EmptyTable
         /\ authors' = EmptyTable
         /\ paper_authors' = EmptyTable
    ELSE UNCHANGED tables

\* A schema stage whose failure is recorded and passed over.
ensure_database_schema_ignoring(ok, drops) ==
    /\ stage = "schema"
    /\ trace' = Append(trace, <<"SCHEMA_ENSURE", ~flags[1].deploy_schema \/ ok>>)
    /\ stage' = "load"
    /\ SchemaTables(flags[1], drops)
    /\ UNCHANGED <<stats, pc, rec, pre, n, rerunVars, conn_closed,
                   flags, fetched, exit_code, at_start>>

\* Stage 2.  With deployment disabled the stage succeeds at once.  `ok` is
\* false when the schema file cannot be read or deploy_schema returns
\* False (an error before the commit, or in the queries that follow it).
ensure_database_schema(ok, drops) ==
    /\ stage = "schema"
    /\ LET success == ~flags[1].deploy_schema \/ ok
       IN  /\ trace' = Append(trace, <<"SCHEMA_ENSURE", success>>)
           /\ IF success THEN stage' = "load" /\ UNCHANGED exit_code
              ELSE Exit(FALSE)
    /\ SchemaTables(flags[1], drops)
    /\ UNCHANGED <<stats, pc, rec, pre, n, rerunVars, conn_closed,
                   flags, fetched, at_start>>

\* A stage 3 that takes an empty list for a load with nothing to do.
load_papers_to_database_empty_ok(ok) ==
    /\ stage = "load"
    /\ IF ok /\ (flags[1].dry_run \/ fetched[1] = <<>>)
       THEN /\ trace' = Append(trace, <<"LOAD", TRUE>>)
            /\ stage' = "validate"
            /\ UNCHANGED <<exit_code, loadVars>>
       ELSE IF ~ok
       THEN /\ trace' = Append(trace, <<"LOAD", FALSE>>)
            /\ Exit(FALSE)
            /\ UNCHANGED loadVars
       ELSE /\ StartBatch(fetched[1])
            /\ stage' = "loading"
            /\ UNCHANGED <<trace, exit_code>>
    /\ UNCHANGED <<flags, fetched, at_start>>

\* Stage 3 up to its loop.  In a dry run the file is only read.  An empty
\* list, a file load_json_file cannot read (it returns None), or in a run
\* that is not dry an error before the loop, ends the stage as failed:
\* `ok` is false for the unreadable file and for the error.
load_papers_to_database(ok) ==
    /\ stage = "load"
    /\ IF flags[1].dry_run
       THEN /\ trace' = Append(trace, <<"LOAD", ok /\ fetched[1] # <<>>>>)
            /\ IF ok /\ fetched[1] # <<>>
               THEN stage' = "validate" /\ UNCHANGED exit_code
               ELSE Exit(FALSE)
            /\ UNCHANGED loadVars
       ELSE IF fetched[1] = <<>> \/ ~ok
       THEN /\ reset_doi_tracking
            /\ trace' = Append(trace, <<"LOAD", FALSE>>)
            /\ Exit(FALSE)
            /\ UNCHANGED <<stats, pc, rec, pre, n, rerunVars, conn_closed>>
       ELSE /\ reset_doi_tracking
            /\ StartBatch(fetched[1])
            /\ stage' = "loading"
            /\ UNCHANGED <<trace, exit_code>>
    /\ UNCHANGED <<flags, fetched, at_start>>

\* Stage 3, after the loop: the summary is logged and the stage returns
\* True, failures or not.
load_returns ==
    /\ stage = "loading"
    /\ EndRun
    /\ trace' = Append(trace, <<"LOAD", TRUE>>)
    /\ stage' = "validate"
    /\ UNCHANGED <<flags, fetched, exit_code, at_start>>

\* Stage 4.  The tests are skipped (no stage result), or run_quality_tests
\* returns True without a TestRunner (tests disabled in the configuration,
\* or a dry run), or the TestRunner is built and run.  `returned` is what
\* run_quality_tests made of run_all_tests (its value, False when it
\* raised), or None when TestRunner() ended the process: its configuration
\* file is not valid YAML and _load_config calls sys.exit(1)
\* (test_papers_table.py 72-74), which `except Exception` does not catch.
\* run_pipeline then goes on to its last lines.
run_quality_tests(returned) ==
    /\ stage = "validate"
    /\ IF ShouldSkipTests(flags[1])
       THEN /\ stage' = "finish"
            /\ UNCHANGED <<trace, exit_code>>
       ELSE IF ~flags[1].run_tests \/ flags[1].dry_run
       THEN /\ trace' = Append(trace, <<"VALIDATE", TRUE>>)
            /\ stage' = "finish"
            /\ UNCHANGED exit_code
       ELSE IF returned = None
       THEN /\ Exit(FALSE)
            /\ UNCHANGED trace
       ELSE /\ trace' = Append(trace, <<"VALIDATE", returned[1]>>)
            /\ stage' = "finish"
            /\ UNCHANGED exit_code
    /\ UNCHANGED <<loadVars, flags, fetched, at_start>>

\* The end of run_pipeline and of main, after stage 4: a failed VALIDATE
\* ends the run as failed unless forced (470-488); the closing log lines,
\* cleanup() and sys.exit follow (490-511, 580-583).
run_pipeline_returns ==
    /\ stage = "finish"
    /\ LET tests_passed ==
               IF ShouldSkipTests(flags[1]) THEN TRUE ELSE trace[Len(trace)][2]
       IN  Exit(tests_passed \/ ShouldForceStore(flags[1]))
    /\ UNCHANGED <<loadVars, flags, fetched, trace, at_start>>

\* KeyboardInterrupt at any point of the process, the lines after stage 4
\* included: run_pipeline returns False (498-500), or main exits 1
\* (587-589).  The stage under way has no result; what is committed stays.
\* `committed`: the interrupt falls after the commit of the schema
\* statements.
pipeline_interrupted(committed) ==
    /\ stage \in {"connect", "fetch", "schema", "load", "loading", "validate",
                  "finish"}
    /\ IF stage = "loading"
       THEN Interrupt
       ELSE /\ interrupted' = TRUE
            /\ IF stage = "schema"
               THEN SchemaTables(flags[1], committed)
               ELSE UNCHANGED tables
            /\ UNCHANGED <<stats, pc, rec, pre, n, batch, run, snap, ref, clean,
                           conn_closed>>
    /\ Exit(FALSE)
    /\ UNCHANGED <<flags, fetched, trace, at_start>>

\* ------------------------------------------------------------------------
\* Spec: loads of any records, one after another
\* ------------------------------------------------------------------------

\* Lists over two plain sub-records, and the sub-records the transforms
\* treat apart: a number for an ORCID, no author at all.
PlainAuthorships ==
    {Authorship("A1", <<InstX>>, "first"), Authorship("A2", <<>>, "last")}

CoreLists ==
    ListsUpTo(PlainAuthorships, MaxAuthorships)
    \cup {<<AuthorshipBadOrcid("A1", "last")>>, <<AuthorshipNoAuthor>>,
          <<AuthorshipBadOrcid("A1", "last"), Authorship("A2", <<>>, "last")>>}

CoreRecords ==
    {Paper(Some(Url("W1")), Some("T"), l) : l \in CoreLists}
    \cup {Paper(Some(<<"W2">>), Some("T"), <<Authorship("A1", <<InstX>>, "first")>>),
          Paper(None, Some("T"), <<Authorship("A1", <<InstX>>, "first")>>),
          Paper(Some(Url("W1")), None, <<Authorship("A2", <<>>, "last")>>)}

LoadStep(Records) ==
    \/ StartLoad /\ UNCHANGED <<pipeVars, checkVars>>
    \/ \E r \in Records :
          run = 0 /\ n < MaxBatch /\ process_paper(r) /\ UNCHANGED <<pipeVars, checkVars>>
    \/ \E answer \in StoreAnswers : upsert_authors(answer) /\ UNCHANGED <<pipeVars, checkVars>>
    \/ \E answer \in StoreAnswers : upsert_papers(answer) /\ UNCHANGED <<pipeVars, checkVars>>
    \/ \E answer \in StoreAnswers : upsert_paper_authors(answer) /\ UNCHANGED <<pipeVars, checkVars>>
    \/ EndLoad /\ UNCHANGED <<pipeVars, checkVars>>
    \/ Interrupt /\ UNCHANGED <<pipeVars, checkVars>>

Next == LoadStep(CoreRecords)

Spec == Init /\ [][Next]_vars

\* ------------------------------------------------------------------------
\* SpecAuthors: loads of records for one paper whose authorship lists repeat
\* an author with differing institutions and positions
\* ------------------------------------------------------------------------

RepeatedAuthorships ==
    {Authorship("A1", <<InstX>>, "first"), Authorship("A1", <<InstY>>, "middle"),
     Authorship("A1", <<>>, "last"), Authorship("A2", <<InstX>>, "last"),
     [institutions |-> Some(<<InstY>>)] @@ AuthorshipBadOrcid("A1", "last")}

AuthorRecords ==
    {Paper(Some(Url("W1")), Some("T"), l) :
        l \in ListsUpTo(RepeatedAuthorships, MaxAuthorships)}

NextAuthors == LoadStep(AuthorRecords)

SpecAuthors == Init /\ [][NextAuthors]_vars

\* ------------------------------------------------------------------------
\* SpecMerge: loads of records for one paper that differ in the descriptive
\* fields they give (DOI, license, topic, concepts, keywords; the author's
\* name, institution and country)
\* ------------------------------------------------------------------------

BasePaper == Paper(Some(Url("W1")), Some("T"), <<>>)

DoiValues == {<<DoiPrefix, "10.1/a">>, <<"10.1/b">>}

Enrichment ==
    [primary_location |-> Some([license |-> Some("cc-by")]),
     topics   |-> Some(<<[display_name |-> Some("NLP")]>>),
     concepts |-> Some(<<[display_name |-> Some("c1"), score |-> Some(2)],
                         [display_name |-> Some("c2"), score |-> Some(9)]>>),
     keywords |-> Some(<<[display_name |-> Some("kw")]>>)]

\* Sub-records for author A1: the name given, null, or missing, with no
\* institution and country, or one of two.
AuthorDicts ==
    {[id |-> Some(Url("A1")), display_name |-> Some("Ann")],
     [id |-> Some(Url("A1")), display_name |-> None],
     [id |-> Some(Url("A1"))]}

Affiliations ==
    {[institutions |-> <<>>, countries |-> <<>>],
     [institutions |-> <<InstX>>, countries |-> <<"US">>],
     [institutions |-> <<InstY>>, countries |-> <<"DE">>]}

DescribedAuthorships ==
    {[author          |-> Some(a),
      institutions    |-> Some(f.institutions),
      countries       |-> Some(f.countries),
      author_position |-> Some("first")] : a \in AuthorDicts, f \in Affiliations}

\* Concept lists the relevance test or the sort cannot take: a name that
\* is null, a score that is null beside another.
BrokenConcepts ==
    {<<[display_name |-> None, score |-> Some(1)]>>,
     <<[display_name |-> Some("c1"), score |-> None],
       [display_name |-> Some("c2"), score |-> Some(2)]>>}

MergeRecords ==
    {BasePaper, Enrichment @@ BasePaper}
    \cup {[concepts |-> Some(cs)] @@ BasePaper : cs \in BrokenConcepts}
    \cup {[keywords |-> Some(<<[display_name |-> None]>>)] @@ BasePaper}
    \cup {[doi |-> Some(d)] @@ BasePaper : d \in DoiValues}
    \cup {Paper(Some(Url("W1")), Some("T"), <<a>>) : a \in DescribedAuthorships}

NextMerge == LoadStep(MergeRecords)

SpecMerge == Init /\ [][NextMerge]_vars

\* ------------------------------------------------------------------------
\* SpecFields: loads of records for one paper that differ in their counts,
\* flags, publication year and publication date
\* ------------------------------------------------------------------------

\* A date string "YYYY-MM-DD" is the sequence of its three numbers.
Years == {2020, 2021}
Dates == {<<2020, 5, 1>>, <<2021, 1, 15>>}

\* EXTRACT(YEAR FROM publication_date)
YearOf(date) == date[1]

\* A record is consistent when its year, given together with a date, is
\* the date's year.
RecordConsistent(r) ==
    (Get(r, "publication_year") # None /\ Get(r, "publication_date") # None)
        => YearOf(Get(r, "publication_date")[1]) = Get(r, "publication_year")[1]

DatedRecords ==
    {r \in {[publication_year |-> Some(y)] @@ BasePaper : y \in Years}
        \cup {[publication_date |-> Some(d)] @@ BasePaper : d \in Dates}
        \cup {[publication_year |-> Some(y), publication_date |-> Some(d)]
                 @@ BasePaper : y \in Years, d \in Dates} :
        RecordConsistent(r)}

CountedRecords ==
    {BasePaper,
     [cited_by_count |-> Some(7)] @@ BasePaper,
     [referenced_works_count |-> Some(3)] @@ BasePaper,
     [is_retracted |-> Some(TRUE)] @@ BasePaper,
     [is_paratext |-> Some(TRUE)] @@ BasePaper,
     [abstract_inverted_index |-> Some([w |-> <<0>>])] @@ BasePaper,
     [cited_by_count |-> Some(7), referenced_works_count |-> Some(3),
      is_retracted |-> Some(TRUE), is_paratext |-> Some(TRUE),
      abstract_inverted_index |-> Some([w |-> <<0>>])]
        @@ Paper(Some(Url("W1")), Some("T"),
                 <<[countries |-> Some(<<"US">>)]
                     @@ Authorship("A1", <<InstX>>, "first")>>)}

FieldRecords == DatedRecords \cup CountedRecords

NextFields == LoadStep(FieldRecords)

SpecFields == Init /\ [][NextFields]_vars

\* ------------------------------------------------------------------------
\* SpecRerun: after loads of any records, one input list is loaded, the
\* load runs to its end or is stopped, and the same list is loaded again
\* ------------------------------------------------------------------------

RerunRecords ==
    {[cited_by_count |-> Some(7)]
        @@ Paper(Some(Url("W1")), Some("T"), <<Authorship("A1", <<InstX>>, "first")>>),
     Paper(Some(Url("W1")), Some("T"), <<Authorship("A2", <<>>, "last")>>),
     Paper(Some(Url("W1")), Some("T"), <<AuthorshipBadOrcid("A1", "last")>>),
     Paper(Some(Url("W2")), Some("T"), <<Authorship("A1", <<InstY>>, "first")>>)}

RerunBatches == ListsUpTo(RerunRecords, MaxRerunBatch)

NextRerun ==
    \/ LoadStep(RerunRecords)
    \/ \E l \in RerunBatches : StartBatch(l) /\ UNCHANGED <<pipeVars, checkVars>>
    \/ NextOfBatch /\ UNCHANGED <<pipeVars, checkVars>>
    \/ EndRun /\ UNCHANGED <<pipeVars, checkVars>>
    \/ Rerun /\ UNCHANGED <<pipeVars, checkVars>>

SpecRerun == Init /\ [][NextRerun]_vars

\* ------------------------------------------------------------------------
\* SpecPipeline: pipeline processes, one after another, on the same store
\* ------------------------------------------------------------------------

\* The arguments and the configuration of a process; an override is given
\* by the argument or by the configuration.
Flags ==
    {f \in [dry_run : BOOLEAN, skip_quality_tests : BOOLEAN,
            force_store : BOOLEAN, config_skip_quality_tests : BOOLEAN,
            config_force_store : BOOLEAN, deploy_schema : BOOLEAN,
            run_tests : BOOLEAN] :
        /\ ~(f.skip_quality_tests /\ f.config_skip_quality_tests)
        /\ ~(f.force_store /\ f.config_force_store)}

FetchedRecords ==
    {Paper(Some(Url("W1")), Some("T"), <<Authorship("A1", <<InstX>>, "first")>>),
     Paper(None, Some("T"), <<Authorship("A2", <<>>, "last")>>),
     Paper(Some(Url("W2")), None, <<>>)}

FetchResults ==
    {None} \cup {Some(l) : l \in ListsUpTo(FetchedRecords, MaxFetched)}

NextPipeline ==
    \/ \E f \in Flags, started \in BOOLEAN :
          main(f, started) /\ UNCHANGED checkVars
    \/ \E ok \in BOOLEAN : verify_connection(ok) /\ UNCHANGED checkVars
    \/ \E result \in FetchResults :
          fetch_papers_from_api(result) /\ UNCHANGED checkVars
    \/ \E ok \in BOOLEAN, drops \in BOOLEAN :
          ensure_database_schema(ok, drops) /\ UNCHANGED checkVars
    \/ \E ok \in BOOLEAN : load_papers_to_database(ok) /\ UNCHANGED checkVars
    \/ stage = "loading" /\ NextOfBatch /\ UNCHANGED <<pipeVars, checkVars>>
    \/ \E answer \in StoreAnswers : stage = "loading" /\ upsert_authors(answer) /\ UNCHANGED <<pipeVars, checkVars>>
    \/ \E answer \in StoreAnswers : stage = "loading" /\ upsert_papers(answer) /\ UNCHANGED <<pipeVars, checkVars>>
    \/ \E answer \in StoreAnswers :
          stage = "loading" /\ upsert_paper_authors(answer) /\ UNCHANGED <<pipeVars, checkVars>>
    \/ load_returns /\ UNCHANGED checkVars
    \/ \E returned \in {None, Some(TRUE), Some(FALSE)} :
          run_quality_tests(returned) /\ UNCHANGED checkVars
    \/ run_pipeline_returns /\ UNCHANGED checkVars
    \/ \E committed \in BOOLEAN :
          pipeline_interrupted(committed) /\ UNCHANGED checkVars

SpecPipeline == Init /\ [][NextPipeline]_vars

\* ------------------------------------------------------------------------
\* SpecValidate: runs of the validator (TestRunner) over its battery
\* ------------------------------------------------------------------------

\* test_categories of run_all_tests, in the order they are run.
test_categories ==
    <<"Data Completeness", "Data Validity", "Business Logic", "Data Quality",
      "Referential Integrity", "Timestamps & Metadata">>

\* TestResult.__init__: a check is not passed until it is found to be.
TestResult(category, index) ==
    [category |-> category, index |-> index, passed |-> FALSE,
     failure_count |-> 0, error_message |-> None]

\* A check whose execution raises is recorded as passed (not the program).
CheckedErrorPasses(result, outcome) ==
    IF outcome = None
    THEN [result EXCEPT !.error_message = Some("error"), !.passed = TRUE]
    ELSE [result EXCEPT !.failure_count = outcome[1],
                        !.passed = (outcome[1] = 0)]

\* The try/except around one query in _run_test_category. outcome is what
\* _execute_test_query did: Some(k), it returned the failure count k; None,
\* it raised.
Checked(result, outcome) ==
    IF outcome = None
    THEN [result EXCEPT !.error_message = Some("error"), !.passed = FALSE]
    ELSE [result EXCEPT !.failure_count = outcome[1],
                        !.passed = (outcome[1] = 0)]

\* The test after results.append(result): the category stops here.
StopOnFailure(result, config) ==
    ~result.passed /\ ~GetDefault(config[1], "continue_on_failure", TRUE)

\* self.config.get(...) raises AttributeError when yaml.safe_load returned
\* something that is not a mapping: the None of an empty file (a scalar or
\* a sequence at the top of the file has no .get either, and behaves as
\* None does).
ConfigRaises(config) == config = None

\* The YAML values of the key "output", by their type: a scalar stands for
\* every value that is neither null nor a mapping (a string, a number, a
\* boolean, a sequence).
OutputValues == {"null", "scalar", "mapping"}

\* _generate_report: self.config.get("output", {}).get("save_to_file", True)
\* raises AttributeError when the configuration is not a mapping, or when
\* it has an output that is not one: the second .get is called on whatever
\* the key holds, and on {} only when the key is absent.
ReportRaises(config) ==
    IF ConfigRaises(config) THEN TRUE
    ELSE GetDefault(config[1], "output", "mapping") # "mapping"

\* The overall result is that of some check (not the program).
AnyPassed(rs) == \E i \in 1..Len(rs) : rs[i].passed

\* An overall result that wants at least one check to have run.
AllPassedOfSome(rs) == rs # <<>> /\ \A i \in 1..Len(rs) : rs[i].passed

\* all(result.passed for result in self.results)
AllPassed(rs) == \A i \in 1..Len(rs) : rs[i].passed

\* TestRunner(...).run_all_tests(): a new runner with the configuration
\* config; the SQL files hold qs[c] queries for category c; connected tells
\* whether DatabaseConfig() and get_connection() succeeded.
run_all_tests(config, qs, connected) ==
    /\ tpc \in {"off", "returned", "fatal", "raised"}
    /\ test_config' = config
    /\ queries' = qs
    /\ results' = <<>>
    /\ category_results' = <<>>
    /\ qi' = 0
    /\ IF connected
       THEN /\ tpc' = "category"
            /\ cat' = 1
            /\ all_passed' = None
       ELSE /\ tpc' = "fatal"
            /\ cat' = 0
            /\ all_passed' = Some(FALSE)
    /\ UNCHANGED <<loadVars, pipeVars, simple_tests, retryVars>>

\* _run_test_category up to its loop: a category without queries returns [].
run_test_category ==
    /\ tpc = "category"
    /\ cat <= Len(test_categories)
    /\ IF queries[cat] = 0
       THEN /\ cat' = cat + 1
            /\ UNCHANGED <<tpc, qi, category_results, results>>
       ELSE /\ tpc' = "query"
            /\ qi' = 1
            /\ category_results' = <<>>
            /\ UNCHANGED <<cat, results>>
    /\ UNCHANGED <<test_config, queries, all_passed, loadVars, pipeVars,
                   simple_tests, retryVars>>

\* One turn of the loop of _run_test_category; at the break or after the
\* last query the category returns and run_all_tests extends self.results.
\* With a configuration that is None, _apply_config_to_query raises inside
\* the try before the query is sent, the check is recorded as an error in
\* the category's own list, and the test of line 277 raises outside the
\* try: run_all_tests catches it and returns False, its results as they
\* were.
run_test_query(outcome) ==
    /\ tpc = "query"
    /\ LET result == Checked(TestResult(test_categories[cat], qi), outcome)
           recorded == Append(category_results, result)
       IN  IF ConfigRaises(test_config)
           THEN /\ tpc' = "fatal"
                /\ category_results' = <<>>
                /\ qi' = 0
                /\ UNCHANGED <<results, cat>>
           ELSE IF StopOnFailure(result, test_config) \/ qi = queries[cat]
           THEN /\ results' = results \o recorded
                /\ category_results' = <<>>
                /\ cat' = cat + 1
                /\ qi' = 0
                /\ tpc' = "category"
           ELSE /\ category_results' = recorded
                /\ qi' = qi + 1
                /\ UNCHANGED <<results, cat, tpc>>
    /\ all_passed' = IF ConfigRaises(test_config) THEN Some(FALSE) ELSE all_passed
    /\ UNCHANGED <<test_config, queries, loadVars, pipeVars,
                   simple_tests, retryVars>>

\* run_all_tests after the last category: the report, then the result.
\* An error in the report is outside the try and leaves run_all_tests as
\* an exception.
run_all_tests_returns ==
    /\ tpc = "category"
    /\ cat > Len(test_categories)
    /\ IF ReportRaises(test_config)
       THEN tpc' = "raised" /\ UNCHANGED all_passed
       ELSE tpc' = "returned" /\ all_passed' = Some(AllPassed(results))
    /\ UNCHANGED <<test_config, queries, results, category_results, cat, qi,
                   loadVars, pipeVars, simple_tests, retryVars>>

\* What _load_config returns for test_config.yaml: None for an empty file,
\* or a mapping in which continue_on_failure is absent (the default
\* applies), true or false, and output is absent, null, a scalar or a
\* mapping.
TestConfigs ==
    {None}
    \cup {Some([k \in {} |-> TRUE])}
    \cup {Some([k \in {"continue_on_failure"} |-> b]) : b \in BOOLEAN}
    \cup {Some([k \in {"output"} |-> o]) : o \in OutputValues}
    \cup {Some([k \in {"continue_on_failure", "output"} |->
                   IF k = "output" THEN o ELSE b]) :
              b \in BOOLEAN, o \in OutputValues}

RECURSIVE SumTo(_, _)
SumTo(f, k) == IF k = 0 THEN 0 ELSE f[k] + SumTo(f, k - 1)

\* The batteries: up to MaxQueries queries in a category (none: an empty or
\* missing file), up to MaxChecks in all.
Batteries ==
    {qs \in [1..Len(test_categories) -> 0..MaxQueries] :
        SumTo(qs, Len(test_categories)) <= MaxChecks}

\* What a query can do: return a failure count, or raise.
Outcomes == {None} \cup {Some(k) : k \in 0..MaxFailures}

NextValidate ==
    \/ \E config \in TestConfigs, qs \in Batteries, connected \in BOOLEAN :
          run_all_tests(config, qs, connected)
    \/ run_test_category
    \/ \E outcome \in Outcomes : run_test_query(outcome)
    \/ run_all_tests_returns

SpecValidate == Init /\ [][NextValidate]_vars

\* ------------------------------------------------------------------------
\* SpecQuality: loads of records with any year and any counts, and runs of
\* the simple data quality tests (run_simple_tests.py) between the writes
\* ------------------------------------------------------------------------

\* The bounds of the SQL of tests 2.1 and 3.2.
MinYear == 1900
MaxYear == 2100
SuspiciousCitations == 100000

\* TRIM of SQL: the string without its leading and trailing spaces.
RECURSIVE LTrim(_)
LTrim(s) ==
    IF Len(s) > 0 /\ SubSeq(s, 1, 1) = " " THEN LTrim(SubSeq(s, 2, Len(s)))
    ELSE s

RECURSIVE RTrim(_)
RTrim(s) ==
    IF Len(s) > 0 /\ SubSeq(s, Len(s), Len(s)) = " "
    THEN RTrim(SubSeq(s, 1, Len(s) - 1))
    ELSE s

TRIM(s) == RTrim(LTrim(s))

\* Test 1.1: title IS NULL OR TRIM(title) = ''
MissingTitles(table) ==
    Cardinality({id \in DOMAIN table :
        table[id].title = None \/ TRIM(table[id].title[1]) = ""})

\* Test 1.2: publication_year IS NULL AND publication_date IS NULL
MissingPublicationInfo(table) ==
    Cardinality({id \in DOMAIN table :
        table[id].publication_year = None /\ table[id].publication_date = None})

\* Test 1.3: papers LEFT JOIN paper_authors ... WHERE pa.paper_id IS NULL
PapersWithoutAuthors(table, links) ==
    Cardinality({id \in DOMAIN table : \A k \in DOMAIN links : k[1] # id})

\* Test 2.1: publication_year < 1900 OR publication_year > 2100 (a NULL
\* year satisfies neither comparison)
InvalidYears(table) ==
    Cardinality({id \in DOMAIN table :
        /\ table[id].publication_year # None
        /\ \/ table[id].publication_year[1] < MinYear
           \/ table[id].publication_year[1] > MaxYear})

\* Test 2.2: cited_by_count < 0 OR referenced_works_count < 0
NegativeCounts(table) ==
    Cardinality({id \in DOMAIN table :
        \/ table[id].cited_by_count # None /\ table[id].cited_by_count[1] < 0
        \/ /\ table[id].referenced_works_count # None
           /\ table[id].referenced_works_count[1] < 0})

\* Test 2.3: EXTRACT(YEAR FROM publication_date) != publication_year
DateMismatches(table) ==
    Cardinality({id \in DOMAIN table :
        /\ table[id].publication_year # None
        /\ table[id].publication_date # None
        /\ YearOf(table[id].publication_date[1]) # table[id].publication_year[1]})

\* Test 3.1: the DOIs that more than one paper has
DuplicateDois(table) ==
    Cardinality({d \in {table[id].doi : id \in DOMAIN table} :
        /\ d # None
        /\ Cardinality({id \in DOMAIN table : table[id].doi = d}) > 1})

\* Test 3.2: cited_by_count > 100000
SuspiciousCitationCounts(table) ==
    Cardinality({id \in DOMAIN table :
        /\ table[id].cited_by_count # None
        /\ table[id].cited_by_count[1] > SuspiciousCitations})

\* The summary statistics print AVG(cited_by_count) with the format .2f:
\* the average of no value is NULL, and formatting it raises.
SummaryRaises(table) == \A id \in DOMAIN table : table[id].cited_by_count = None

\* What the k-th statement of run_data_quality_tests counts in the tables
\* as they are when it is executed.
QualityCount(k) ==
    CASE k = 1 -> MissingTitles(papers)
      [] k = 2 -> MissingPublicationInfo(papers)
      [] k = 3 -> PapersWithoutAuthors(papers, paper_authors)
      [] k = 4 -> InvalidYears(papers)
      [] k = 5 -> NegativeCounts(papers)
      [] k = 6 -> DateMismatches(papers)
      [] k = 7 -> DuplicateDois(papers)
      [] k = 8 -> SuspiciousCitationCounts(papers)

\* run_data_quality_tests() up to its first statement: the counters at
\* zero and the connection; a connection error returns False.
run_data_quality_tests(connected) ==
    /\ IF simple_tests = None THEN TRUE ELSE simple_tests[1].returned # None
    /\ simple_tests' = Some(
           [step |-> 0, counts |-> <<>>, tests_passed |-> 0, tests_failed |-> 0,
            total_issues |-> 0, error |-> ~connected,
            returned |-> IF connected THEN None ELSE Some(FALSE)])
    /\ UNCHANGED <<loadVars, pipeVars, test_config, queries, results,
                   category_results, tpc, cat, qi, all_passed, retryVars>>

\* The next cursor.execute of run_data_quality_tests, each a statement of
\* its own that reads what is committed when it is executed.  Statements 1
\* to 8 are the counts of the tests: a count of zero passes the test, any
\* other fails it and is added to the critical issues (test 1.3 adds
\* none).  Statement 9 is the summary, after which the function returns
\* whether there was no critical issue.  An error (`ok` false, or the
\* summary that cannot be printed) returns False.
cursor_execute(ok) ==
    /\ simple_tests # None
    /\ simple_tests[1].returned = None
    /\ LET t == simple_tests[1]
           k == t.step + 1
       IN  IF ~ok \/ (k = 9 /\ SummaryRaises(papers))
           THEN simple_tests' =
                   Some([t EXCEPT !.error = TRUE, !.returned = Some(FALSE)])
           ELSE IF k = 9
           THEN simple_tests' =
                   Some([t EXCEPT !.step = k,
                                  !.returned = Some(t.total_issues = 0)])
           ELSE LET count == QualityCount(k)
                IN  simple_tests' = Some(
                        [t EXCEPT !.step = k,
                                  !.counts = Append(@, count),
                                  !.tests_passed = @ + (IF count = 0 THEN 1 ELSE 0),
                                  !.tests_failed = @ + (IF count = 0 THEN 0 ELSE 1),
                                  !.total_issues = @ + (IF k = 3 THEN 0 ELSE count)])
    /\ UNCHANGED <<loadVars, pipeVars, test_config, queries, results,
                   category_results, tpc, cat, qi, all_passed, retryVars>>

QualityRecords ==
    {[publication_year |-> Some(y)] @@ BasePaper : y \in {2050, 2101}}
    \cup {[cited_by_count |-> Some(0 - 1)] @@ BasePaper,
          [cited_by_count |-> None] @@ BasePaper,
          [cited_by_count |-> Some(SuspiciousCitations + 1),
           publication_year |-> Some(1899),
           publication_date |-> Some(<<2021, 1, 15>>)]
              @@ Paper(Some(Url("W2")), Some("   "),
                       <<Authorship("A1", <<InstX>>, "first")>>)}

NextQuality ==
    \/ LoadStep(QualityRecords)
    \/ \E connected \in BOOLEAN : run_data_quality_tests(connected)
    \/ \E ok \in BOOLEAN : cursor_execute(ok)

SpecQuality == Init /\ [][NextQuality]_vars

\* ------------------------------------------------------------------------
\* SpecPages: loads of records whose authorship lists fill one page of the
\* write, or more
\* ------------------------------------------------------------------------

\* A record of paper `id` with the authors A1 .. Ak, each once.
ManyAuthors(id, k) ==
    Paper(Some(Url(id)), Some("T"),
          [i \in 1..k |-> Authorship("A" \o ToString(i), <<>>, "middle")])

PageRecords ==
    {ManyAuthors("W1", 1), ManyAuthors("W1", PageSize),
     ManyAuthors("W2", PageSize + 1)}

NextPages == LoadStep(PageRecords)

SpecPages == Init /\ [][NextPages]_vars

\* ------------------------------------------------------------------------
\* SpecRetry: calls of retry_with_exponential_backoff (fetch_ai_papers.py)
\* ------------------------------------------------------------------------

validatorVars == <<test_config, queries, results, category_results, tpc, cat,
                   qi, all_passed, simple_tests>>

\* attempt == max_retries - 1
LastAttempt(a, retries) == a = retries - 1

\* `for attempt in range(max_retries)` at attempt a: the loop goes on to a
\* call of func, or is over and the function returns None.
LoopAt(a, retries) ==
    IF a < retries
    THEN /\ rpc' = "call"
         /\ retry_result' = None
    ELSE /\ rpc' = "returned"
         /\ retry_result' = Some(None)

\* retry_with_exponential_backoff(func, retries, d0) is called.
retry_with_exponential_backoff(retries, d0) ==
    /\ rpc \in {"off", "returned", "raised"}
    /\ max_retries' = retries
    /\ initial_delay' = d0
    /\ delay' = d0
    /\ attempt' = 0
    /\ calls' = 0
    /\ waits' = <<>>
    /\ LoopAt(0, retries)
    /\ UNCHANGED <<loadVars, pipeVars, validatorVars>>

\* try: return func() / except Exception: func returns (ok) or raises; the
\* error of the last attempt is raised again.
call_func(ok) ==
    /\ rpc = "call"
    /\ calls' = calls + 1
    /\ IF ok
       THEN /\ rpc' = "returned"
            /\ retry_result' = Some(Some("result"))
       ELSE IF LastAttempt(attempt, max_retries)
       THEN /\ rpc' = "raised"
            /\ retry_result' = Some(calls + 1)
       ELSE /\ rpc' = "sleep"
            /\ retry_result' = None
    /\ UNCHANGED <<max_retries, initial_delay, attempt, delay, waits,
                   loadVars, pipeVars, validatorVars>>

\* time.sleep(delay); delay *= 2; then the next turn of the loop.
sleep ==
    /\ rpc = "sleep"
    /\ waits' = Append(waits, delay)
    /\ delay' = delay * 2
    /\ attempt' = attempt + 1
    /\ LoopAt(attempt + 1, max_retries)
    /\ UNCHANGED <<max_retries, initial_delay, calls,
                   loadVars, pipeVars, validatorVars>>

NextRetry ==
    \/ \E retries \in 0..MaxRetries, d0 \in 0..MaxInitialDelay :
          retry_with_exponential_backoff(retries, d0)
    \/ \E ok \in BOOLEAN : call_func(ok)
    \/ sleep

SpecRetry == Init /\ [][NextRetry]_vars

\* ------------------------------------------------------------------------
\* SpecStage: pipeline processes whose VALIDATE stage runs the validator
\* ------------------------------------------------------------------------

\* The processes of a deployment whose schema is in place: the pipeline
\* configuration has database.deploy_schema false.
StageFlags == {f \in Flags : ~f.deploy_schema}

\* main() starts a process that has no TestRunner yet; stage 4 builds one
\* and runs it unless the tests are skipped, disabled or left out by a dry
\* run, and hands run_all_tests' value to run_quality_tests, whose
\* `except Exception` makes False of an error run_all_tests raised.
NextStage ==
    \/ \E f \in StageFlags, started \in BOOLEAN :
          /\ main(f, started)
          /\ tpc' = "off"
          /\ test_config' = None
          /\ queries' = <<>>
          /\ results' = <<>>
          /\ category_results' = <<>>
          /\ cat' = 0
          /\ qi' = 0
          /\ all_passed' = None
          /\ UNCHANGED <<simple_tests, retryVars>>
    \/ \E ok \in BOOLEAN : verify_connection(ok) /\ UNCHANGED checkVars
    \/ /\ fetch_papers_from_api(
              Some(<<Paper(Some(Url("W1")), Some("T"),
                           <<Authorship("A1", <<InstX>>, "first")>>)>>))
       /\ UNCHANGED checkVars
    \/ \E ok \in BOOLEAN, drops \in BOOLEAN :
          ensure_database_schema(ok, drops) /\ UNCHANGED checkVars
    \/ \E ok \in BOOLEAN : load_papers_to_database(ok) /\ UNCHANGED checkVars
    \/ stage = "loading" /\ NextOfBatch /\ UNCHANGED <<pipeVars, checkVars>>
    \/ \E answer \in StoreAnswers :
          stage = "loading" /\ upsert_authors(answer) /\ UNCHANGED <<pipeVars, checkVars>>
    \/ \E answer \in StoreAnswers :
          stage = "loading" /\ upsert_papers(answer) /\ UNCHANGED <<pipeVars, checkVars>>
    \/ \E answer \in StoreAnswers :
          stage = "loading" /\ upsert_paper_authors(answer)
              /\ UNCHANGED <<pipeVars, checkVars>>
    \/ load_returns /\ UNCHANGED checkVars
    \/ /\ stage = "validate"
       /\ ShouldSkipTests(flags[1]) \/ ~flags[1].run_tests \/ flags[1].dry_run
       /\ run_quality_tests(None)
       /\ UNCHANGED checkVars
    \/ /\ stage = "validate"
       /\ ~ShouldSkipTests(flags[1]) /\ flags[1].run_tests /\ ~flags[1].dry_run
       /\ tpc = "off"
       /\ run_quality_tests(None)
       /\ UNCHANGED checkVars
    \/ \E connected \in BOOLEAN,
          config \in {c \in TestConfigs :
                         IF c = None THEN TRUE
                         ELSE "continue_on_failure" \notin DOMAIN c[1]},
          qs \in {b \in Batteries :
                     SumTo(b, Len(test_categories)) <= MaxStageChecks} :
          /\ stage = "validate"
          /\ ~ShouldSkipTests(flags[1]) /\ flags[1].run_tests /\ ~flags[1].dry_run
          /\ tpc = "off"
          /\ run_all_tests(config, qs, connected)
    \/ stage = "validate" /\ run_test_category
    \/ \E outcome \in Outcomes : stage = "validate" /\ run_test_query(outcome)
    \/ stage = "validate" /\ run_all_tests_returns
    \/ /\ stage = "validate"
       /\ ~ShouldSkipTests(flags[1]) /\ flags[1].run_tests /\ ~flags[1].dry_run
       /\ tpc \in {"returned", "fatal"}
       /\ run_quality_tests(all_passed)
       /\ UNCHANGED checkVars
    \/ /\ stage = "validate"
       /\ tpc = "raised"
       /\ run_quality_tests(Some(FALSE))
       /\ UNCHANGED checkVars
    \/ run_pipeline_returns /\ UNCHANGED checkVars
    \/ \E committed \in BOOLEAN :
          pipeline_interrupted(committed) /\ UNCHANGED checkVars

SpecStage == Init /\ [][NextStage]_vars

\* ------------------------------------------------------------------------
\* Properties
\* ------------------------------------------------------------------------

\* The author id a sub-record names, None when it names none.
AuthorIdOf(authorship) ==
    extract_id_from_url(Get(OrEmptyDict(Get(authorship, "author")), "id"))

\* The places of the sub-records of list l that name author id aid.
Occurrences(l, aid) == {i \in 1..Len(l) : AuthorIdOf(l[i]) = Some(aid)}

Min(S) == CHOOSE x \in S : \A y \in S : x <= y
Max(S) == CHOOSE x \in S : \A y \in S : x >= y

\* The step is the last statement of process_paper going through.
RecordProcessed ==
    pc = "links" /\ stats'.total_papers_processed = stats.total_papers_processed + 1

\* The step is upsert_authors committing a batch.
AuthorsCommitted ==
    pc = "authors" /\ pc' = "paper" /\ AuthorsData(Authorships(rec[1]), 1) # <<>>

\* The step is upsert_papers committing.
PaperCommitted == pc = "paper" /\ pc' = "links"

NoRowRemoved ==
    [][/\ DOMAIN papers \subseteq DOMAIN papers'
       /\ DOMAIN authors \subseteq DOMAIN authors'
       /\ DOMAIN paper_authors \subseteq DOMAIN paper_authors']_vars

\* Paper W1 was last written from a record without authorships and still
\* has the authorship row of an earlier record.
NoRowRemovedWitness ==
    /\ "W1" \in DOMAIN papers
    /\ papers["W1"].author_count = 0
    /\ <<"W1", "A2">> \in DOMAIN paper_authors

\* C4: when a record lists an author id more than once and is processed,
\* the authorship row of (paper, author) carries the author_sequence and
\* the author_position of the first of these sub-records.
AuthorshipFirstWins ==
    [][RecordProcessed =>
        LET l == Authorships(rec[1])
            pid == PaperData(rec[1]).paper_id
        IN  \A aid \in {"A1", "A2"} :
                Cardinality(Occurrences(l, aid)) > 1 =>
                    LET first == Min(Occurrences(l, aid))
                    IN  /\ <<pid, aid>> \in DOMAIN paper_authors'
                        /\ paper_authors'[<<pid, aid>>].author_sequence = first
                        /\ paper_authors'[<<pid, aid>>].author_position
                             = Get(l[first], "author_position")]_vars

\* Paper W1 has one authorship row for A1, written from a list whose two
\* sub-records both name A1, the first of them in position "middle".
AuthorshipFirstWinsWitness ==
    /\ pc = "next"
    /\ stats.total_papers_processed = 1
    /\ "W1" \in DOMAIN papers
    /\ papers["W1"].author_count = 2
    /\ papers["W1"].institution_count = 1
    /\ <<"W1", "A1">> \in DOMAIN paper_authors
    /\ <<"W1", "A2">> \notin DOMAIN paper_authors
    /\ paper_authors[<<"W1", "A1">>].author_sequence = 1
    /\ paper_authors[<<"W1", "A1">>].author_position = Some("middle")

\* The institution of a sub-record as transform_author_data reads it.
InstitutionOf(authorship) ==
    LET insts == OrEmptyList(Get(authorship, "institutions"))
    IN  IF insts = <<>> THEN None ELSE Get(insts[1], "display_name")

\* The list names author aid in two sub-records of differing institutions.
RepeatedWithDifferingInstitutions(l, aid) ==
    \E i, j \in Occurrences(l, aid) :
        i < j /\ InstitutionOf(l[i]) # InstitutionOf(l[j])

\* C5: after the author write of a record that names an author in two
\* sub-records of differing institutions, the author's primary institution
\* is that of the later sub-record when that sub-record has one; when it
\* has none the write keeps what the store held (the write never replaces
\* a value by null), which is no institution for an author not stored
\* before.
AuthorLastWins ==
    [][AuthorsCommitted =>
        LET l == Authorships(rec[1])
        IN  \A aid \in {"A1", "A2"} :
                RepeatedWithDifferingInstitutions(l, aid) =>
                    LET later == InstitutionOf(l[Max(Occurrences(l, aid))])
                        before == IF aid \in DOMAIN authors
                                  THEN authors[aid].primary_institution ELSE None
                    IN  authors'[aid].primary_institution
                          = IF later # None THEN later ELSE before]_vars

\* The record of the scenario: id W1, no DOI, A1 listed twice, first with
\* institution X, then with none.
ScenarioRecord ==
    Paper(Some(Url("W1")), Some("T"),
          <<Authorship("A1", <<InstX>>, "first"), Authorship("A1", <<>>, "last")>>)

\* The scenario record is processed through to its last statement, on
\* tables that were empty when process_paper began.
ScenarioLoaded ==
    /\ RecordProcessed
    /\ rec[1] = ScenarioRecord
    /\ pre[1] = EmptyStore

ScenarioRows(institution) ==
    /\ DOMAIN papers' = {"W1"}
    /\ DOMAIN authors' = {"A1"}
    /\ authors'["A1"].primary_institution = institution
    /\ DOMAIN paper_authors' = {<<"W1", "A1">>}
    /\ paper_authors'[<<"W1", "A1">>].author_sequence = 1
    /\ paper_authors'[<<"W1", "A1">>].author_position = Some("first")

\* C6 as stated: one paper, one author with institution X, one authorship
\* with sequence 1 and the first sub-record's position.
ScenarioKeepsInstitution == [][ScenarioLoaded => ScenarioRows(Some("X"))]_vars

\* C6 as amended: the same rows, the author's institution being null (the
\* later sub-record, which has none, is the one written).
ScenarioInstitutionNull == [][ScenarioLoaded => ScenarioRows(None)]_vars

\* The tables right after the scenario record was loaded into empty ones.
ScenarioWitness ==
    /\ pc = "next"
    /\ stats.total_papers_processed = 1
    /\ DOMAIN papers = {"W1"}
    /\ papers["W1"].doi = None
    /\ papers["W1"].author_count = 2
    /\ papers["W1"].first_institution = Some("X")
    /\ DOMAIN authors = {"A1"}
    /\ authors["A1"].primary_institution = None
    /\ DOMAIN paper_authors = {<<"W1", "A1">>}
    /\ paper_authors[<<"W1", "A1">>].author_position = Some("first")

\* The step is upsert_paper_authors committing a batch.
LinksCommitted ==
    RecordProcessed /\ PaperAuthorsBatch(rec[1]) # <<>>

DescriptiveAuthorColumns ==
    {"display_name", "primary_institution", "primary_country"}
DescriptivePaperColumns ==
    {"doi", "license", "primary_topic", "top_concept_1", "top_concept_2",
     "top_concept_3", "keywords", "first_author_name", "first_institution"}
DescriptiveAuthorshipColumns == {"institution_names", "countries"}

\* Row `after` holds, in each of the columns, the incoming value when that
\* is non-null and the value of row `before` when it is null.
CoalescedFrom(before, after, incoming, columns) ==
    \A c \in columns :
        after[c] = IF incoming[c] # None THEN incoming[c] ELSE before[c]

\* C2: every committed write that updates an existing author, paper or
\* authorship row leaves in each descriptive column the incoming value when
\* that is non-null and the stored value when it is null; so a null DOI
\* becomes the DOI a later record brings, and a stored DOI stays when a
\* record has none.
DescriptiveFieldsCoalesce ==
    [][/\ AuthorsCommitted =>
            LET rows == AuthorsBatch(rec[1])
            IN  \A i \in 1..Len(rows) :
                    rows[i].author_id \in DOMAIN authors =>
                        CoalescedFrom(authors[rows[i].author_id],
                                      authors'[rows[i].author_id],
                                      rows[i], DescriptiveAuthorColumns)
       /\ PaperCommitted =>
            LET row == PaperData(rec[1])
            IN  row.paper_id \in DOMAIN papers =>
                    CoalescedFrom(papers[row.paper_id], papers'[row.paper_id],
                                  row, DescriptivePaperColumns)
       /\ LinksCommitted =>
            LET rows == PaperAuthorsBatch(rec[1])
            IN  \A i \in 1..Len(rows) :
                    LET k == <<rows[i].paper_id, rows[i].author_id>>
                    IN  k \in DOMAIN paper_authors =>
                            CoalescedFrom(paper_authors[k], paper_authors'[k],
                                          rows[i], DescriptiveAuthorshipColumns)
      ]_vars

\* Paper W1, stored with a DOI, a license and keywords, has just been
\* updated from a record that has none of them, and keeps all three.
DescriptiveFieldsCoalesceWitness ==
    /\ pc = "links"
    /\ Get(rec[1], "doi") = None
    /\ PaperData(rec[1]).license = None
    /\ "W1" \in DOMAIN pre[1].papers
    /\ pre[1].papers["W1"].doi = Some(<<"10.1/a">>)
    /\ papers["W1"].doi = Some(<<"10.1/a">>)
    /\ papers["W1"].license = Some("cc-by")
    /\ papers["W1"].keywords = Some(<<Some("kw")>>)

MonotonicColumns ==
    {"cited_by_count", "referenced_works_count", "author_count",
     "institution_count", "country_count",
     "is_retracted", "is_paratext", "has_abstract"}

\* C3: whenever the paper write of a record has gone through, the paper's
\* counts and flags are those of that record, whatever was stored before.
MonotonicFieldsLatest ==
    pc = "links" =>
        LET row == PaperData(rec[1])
        IN  /\ row.paper_id \in DOMAIN papers
            /\ \A c \in MonotonicColumns : papers[row.paper_id][c] = row[c]

\* Paper W1, stored with 7 citations, one author and the retracted flag,
\* has just been written from a record that has none of them.
MonotonicFieldsLatestWitness ==
    /\ pc = "links"
    /\ "W1" \in DOMAIN pre[1].papers
    /\ pre[1].papers["W1"].cited_by_count = Some(7)
    /\ pre[1].papers["W1"].is_retracted = Some(TRUE)
    /\ pre[1].papers["W1"].author_count = 1
    /\ papers["W1"].cited_by_count = Some(0)
    /\ papers["W1"].is_retracted = Some(FALSE)
    /\ papers["W1"].author_count = 0

\* C8: when every record that can be ingested is consistent, every stored
\* paper with both a year and a date has the date's year for its year.
YearMatchesDate ==
    (\A r \in FieldRecords : RecordConsistent(r)) =>
        \A id \in DOMAIN papers :
            (papers[id].publication_year # None /\ papers[id].publication_date # None)
                => YearOf(papers[id].publication_date[1])
                     = papers[id].publication_year[1]

\* The two runs over the list have ended, neither of them stopped.
LoadedTwice == pc = "finished" /\ ~interrupted

\* The second run reports no inserted row, and the tables are as the first
\* run left them.
SecondRunChangedNothing ==
    /\ stats.papers_inserted = 0
    /\ stats.authors_inserted = 0
    /\ stats.paper_authors_inserted = 0
    /\ Store = snap[1]

\* C1: from any tables, when the store took every write of both runs
\* (no rejection of its own, no lost connection), the second of two runs
\* over one list reports no inserted row and leaves the tables as the
\* first run left them.
LoadTwiceIdempotent == (LoadedTwice /\ clean) => SecondRunChangedNothing

\* A run over the list was stopped and the run after it has ended.
ResumedAfterInterrupt == pc = "finished" /\ interrupted

\* C9: after a stopped run and a full one over the same list, the store
\* having taken every write of both, the tables are those an undisturbed
\* load of the list ends with.
ResumeEqualsUninterrupted == (ResumedAfterInterrupt /\ clean) => Store = ref[1]

\* The step is process_paper ending without the record processed: a
\* transform gave no row, the debug line raised, or a write was rejected.
RecordGivenUp ==
    /\ pc \in {"next", "authors", "paper", "links"}
    /\ pc' = "next"
    /\ n' = n + 1
    /\ stats'.total_papers_processed = stats.total_papers_processed

\* C11: the author table changes only in the first write of a record, the
\* paper table only in the second, the authorship table only in the third;
\* the second write is reached only from the first and the third only from
\* the second, each of them committed or skipped; a record given up at a
\* write issues no further write (process_paper has returned); and the
\* first write of a record starts only when no record is in hand.
WritesInOrder ==
    [][/\ authors' # authors => (pc = "authors" /\ pc' = "paper")
       /\ papers' # papers => (pc = "paper" /\ pc' = "links")
       /\ paper_authors' # paper_authors => (pc = "links" /\ pc' = "next")
       /\ (pc' = "paper" /\ pc # "paper") =>
              (pc = "authors" /\ stats'.authors_failed = stats.authors_failed)
       /\ (pc' = "links" /\ pc # "links") =>
              (pc = "paper" /\ stats'.papers_failed = stats.papers_failed)
       /\ (pc' = "authors" /\ pc # "authors") => (pc = "next" /\ rec = None)
       /\ RecordGivenUp => (rec' = None /\ UNCHANGED tables)
       /\ (stats'.authors_failed # stats.authors_failed
             \/ stats'.papers_failed # stats.papers_failed
             \/ stats'.paper_authors_failed # stats.paper_authors_failed)
              => (pc' \in {"next", "idle", "stopped"} /\ rec' = None)
      ]_vars

\* The author write of a record was rejected, and neither the paper nor an
\* authorship of the record was written after it.
WritesInOrderWitness ==
    /\ pc = "next"
    /\ stats.authors_failed > 0
    /\ stats.papers_failed = 1
    /\ stats.papers_inserted = 0
    /\ stats.papers_updated = 0
    /\ papers = EmptyTable
    /\ paper_authors = EmptyTable

\* The except clause of process_paper, which counts the record as failed
\* once the error of a write has reached it.
CaughtByProcessPaper(st) == [st EXCEPT !.papers_failed = @ + 1]

\* C12: when a write does not go through (the store rejects the statement
\* or the commit, or the connection is lost) the three tables stay as they
\* were, the entity's failed counter has risen by the length of the
\* deduplicated batch when the error leaves the upsert function, the caller
\* counts the record's failure, and the record is dropped (its write is not
\* issued again).  No other counter moves, but for the entity's inserted
\* and updated counters, which keep what was counted for the returned rows
\* when it is the commit that did not go through.
RejectedBatchRolledBack ==
    [][RecordGivenUp =>
        /\ UNCHANGED tables
        /\ rec' = None
        /\ (pc = "authors") =>
              \E st \in {stats, Counted(stats, "authors_inserted", "authors_updated",
                                        authors, AuthorKeys(AuthorsBatch(rec[1])))} :
                 stats' = CaughtByProcessPaper(
                     [st EXCEPT !.authors_failed = @ + Len(AuthorsBatch(rec[1]))])
        /\ (pc = "paper") =>
              \E st \in {stats, Counted(stats, "papers_inserted", "papers_updated",
                                        papers, PaperKeys(PapersBatch(rec[1])))} :
                 stats' = CaughtByProcessPaper(
                     [st EXCEPT !.papers_failed = @ + Len(PapersBatch(rec[1]))])
        /\ (pc = "links") =>
              \E st \in {stats,
                         Counted(stats, "paper_authors_inserted",
                                 "paper_authors_updated", paper_authors,
                                 PaperAuthorKeys(PaperAuthorsBatch(rec[1])))} :
                 stats' = CaughtByProcessPaper(
                     [st EXCEPT !.paper_authors_failed
                                   = @ + Len(PaperAuthorsBatch(rec[1]))])
      ]_vars

StageOrder == <<"FETCH", "SCHEMA_ENSURE", "LOAD", "VALIDATE">>

\* C13: the stages executed so far in a pipeline run are the first ones of
\* FETCH, SCHEMA_ENSURE, LOAD, VALIDATE, in that order, each once; a failed
\* FETCH, SCHEMA_ENSURE or LOAD is the last stage executed and the run has
\* ended as failed.
StagesInOrder ==
    /\ Len(trace) <= Len(StageOrder)
    /\ \A i \in 1..Len(trace) :
          /\ trace[i][1] = StageOrder[i]
          /\ (i <= 3 /\ ~trace[i][2]) =>
                (i = Len(trace) /\ stage = "exit" /\ exit_code = Some(1))

\* A run has ended as failed after FETCH and SCHEMA_ENSURE succeeded and
\* LOAD failed; VALIDATE was not executed.
StagesInOrderWitness ==
    /\ stage = "exit"
    /\ exit_code = Some(1)
    /\ trace = <<<<"FETCH", TRUE>>, <<"SCHEMA_ENSURE", TRUE>>, <<"LOAD", FALSE>>>>

\* The stage was executed in this run and returned success.
StageSucceeded(name) == \E i \in 1..Len(trace) : trace[i] = <<name, TRUE>>

\* The stage was executed in this run and returned failure.
StageFailed(name) == \E i \in 1..Len(trace) : trace[i] = <<name, FALSE>>

\* C14: a pipeline process that has run to its end (it was not interrupted)
\* has exit code 0 when FETCH, SCHEMA_ENSURE and LOAD succeeded and VALIDATE
\* was skipped, or passed, or failed with the force flag set by argument or
\* configuration; it has exit code 1 in every other case.
ExitCodeRight ==
    (stage = "exit" /\ ~interrupted) =>
        exit_code = Some(
            IF /\ flags # None
               /\ StageSucceeded("FETCH")
               /\ StageSucceeded("SCHEMA_ENSURE")
               /\ StageSucceeded("LOAD")
               /\ \/ flags[1].skip_quality_tests
                  \/ flags[1].config_skip_quality_tests
                  \/ StageSucceeded("VALIDATE")
                  \/ /\ StageFailed("VALIDATE")
                     /\ flags[1].force_store \/ flags[1].config_force_store
            THEN 0 ELSE 1)

\* A process has exited with code 0 after its VALIDATE stage failed, the
\* force flag being set by the configuration and not by the argument.
ExitCodeRightWitness ==
    /\ stage = "exit"
    /\ ~interrupted
    /\ exit_code = Some(0)
    /\ trace = <<<<"FETCH", TRUE>>, <<"SCHEMA_ENSURE", TRUE>>, <<"LOAD", TRUE>>,
                 <<"VALIDATE", FALSE>>>>
    /\ flags[1].config_force_store
    /\ ~flags[1].force_store

\* C15: when a pipeline process has exited after VALIDATE failed without
\* the force flag, the tables are those the run found: the rows it loaded
\* are not in the store.
FailedValidateBlocksStore ==
    (/\ stage = "exit"
     /\ \E i \in 1..Len(trace) : trace[i] = <<"VALIDATE", FALSE>>
     /\ ~flags[1].force_store
     /\ ~flags[1].config_force_store)
        => Store = at_start[1]

\* C16: in the LOAD stage a record counted as failed leaves the loop at the
\* next record; process_paper is handed the records of the list one by one
\* in order, and each of them comes to its writes on a connection that is
\* open, so that its rows are written when the store takes them; and the
\* stage ends, unless interrupted, only after the last record, and then as
\* succeeded.
LoadGoesOn ==
    [][stage = "loading" =>
        /\ stats'.papers_failed > stats.papers_failed =>
              (pc' = "next" /\ n' = n + 1 /\ stage' = "loading")
        /\ (pc = "next" /\ pc' = "authors") =>
              (rec' = Some(batch[n + 1]) /\ ~conn_closed')
        /\ stage' = "loading" => n' \in {n, n + 1}
        /\ (stage' # "loading" /\ ~interrupted') =>
              /\ n = Len(batch)
              /\ stage' = "validate"
              /\ trace' = Append(trace, <<"LOAD", TRUE>>)
      ]_vars

\* The step is the loop of the LOAD stage handing its next record to
\* process_paper.
NextRecordHandled ==
    /\ stage = "loading"
    /\ stage' = "loading"
    /\ pc = "next"
    /\ n < Len(batch)

\* C17: when process_paper is handed a record from which no paper id can
\* be extracted, it returns failure at once: papers_failed rises by one,
\* no other counter moves, and the three tables stay as they were.
NoIdentifierSkipped ==
    [][(NextRecordHandled /\ transform_paper_data(batch[n + 1]) = None) =>
        /\ UNCHANGED tables
        /\ stats' = [stats EXCEPT !.papers_failed = @ + 1]
        /\ pc' = "next"
        /\ n' = n + 1
      ]_vars

\* The first record of the list, which has no id and names author A2, has
\* been skipped: one failure counted, the tables as the run found them.
NoIdentifierSkippedWitness ==
    /\ stage = "loading"
    /\ pc = "next"
    /\ n = 1
    /\ Get(batch[1], "id") = None
    /\ Authorships(batch[1]) # <<>>
    /\ stats = [ZeroStats EXCEPT !.papers_failed = 1]
    /\ Store = at_start[1]
    /\ "A2" \notin DOMAIN authors

\* C18: a record from which a paper id can be extracted is never given up
\* at normalization: process_paper goes on to its writes.
OnlyIdentifierMandatory ==
    [][(/\ NextRecordHandled
        /\ ~IdMissing(extract_id_from_url(Get(batch[n + 1], "id"))))
          => (pc' = "authors" /\ rec' = Some(batch[n + 1]))
      ]_vars

\* The checks of category c that a run which neither stops nor fails
\* executes, in order.
RECURSIVE BatteryUpTo(_)
BatteryUpTo(c) ==
    IF c = 0 THEN <<>>
    ELSE BatteryUpTo(c - 1)
         \o [i \in 1..queries[c] |-> <<test_categories[c], i>>]

Recorded(rs) == [i \in 1..Len(rs) |-> <<rs[i].category, rs[i].index>>]

EveryRecordedPassed == \A r \in {results[i] : i \in 1..Len(results)} : r.passed

EveryResult == {results[i] : i \in 1..Len(results)}
                   \cup {category_results[i] : i \in 1..Len(category_results)}

\* C19 as stated: every recorded check is marked passed iff its failure
\* count is zero, the checks whose execution raised an error included.
PassedIffNoFailures ==
    \A r \in EveryResult : r.passed <=> (r.failure_count = 0)

\* C19: every recorded check whose execution raised no error is marked
\* passed iff its failure count is zero; a check whose execution raised is
\* recorded as not passed, with the failure count left at zero.
PassedIffNoFailuresNorError ==
    \A r \in EveryResult :
        /\ r.error_message = None => (r.passed <=> (r.failure_count = 0))
        /\ r.error_message # None => (~r.passed /\ r.failure_count = 0)

PassedIffNoFailuresWitness ==
    /\ tpc = "returned"
    /\ \E r \in EveryResult : r.error_message # None
    /\ \E r \in EveryResult : r.error_message = None /\ r.failure_count > 0
    /\ \E r \in EveryResult : r.passed

\* C20 as stated: a validation run records a result for every check of the
\* battery, whatever the earlier outcomes and the configuration, and its
\* overall result is true iff every check passed.
EveryCheckRecorded ==
    tpc = "returned" =>
        /\ Recorded(results) = BatteryUpTo(Len(test_categories))
        /\ all_passed = Some(EveryRecordedPassed)

\* The results of category c recorded by a run that stops a category at
\* its first check that did not pass.
ResultsOf(c) == SelectSeq(results, LAMBDA r : r.category = test_categories[c])

StoppedAtFirstFailure(c) ==
    LET rs == ResultsOf(c)
    IN  /\ Len(rs) <= queries[c]
        /\ \A i \in 1..Len(rs) : rs[i].index = i
        /\ \A i \in 1..Len(rs) : (i < Len(rs)) => rs[i].passed
        /\ (Len(rs) < queries[c]) => (Len(rs) > 0 /\ ~rs[Len(rs)].passed)

\* C20: a validation run that has gone through its categories with a
\* configuration that is a mapping has recorded, with continue_on_failure
\* true (the default), a result for every check of the battery, in order,
\* whatever the earlier outcomes; with continue_on_failure false each
\* category is recorded up to and including its first check that did not
\* pass, and the later categories still run.  The overall result a run
\* returns after its last category is true iff every recorded check
\* passed; a run that could not reach the store records nothing and its
\* overall result is false.
EveryCheckRecordedUnlessStopped ==
    /\ (tpc \in {"returned", "raised"} /\ ~ConfigRaises(test_config)) =>
          /\ tpc = "returned" => all_passed = Some(EveryRecordedPassed)
          /\ IF GetDefault(test_config[1], "continue_on_failure", TRUE)
             THEN Recorded(results) = BatteryUpTo(Len(test_categories))
             ELSE \A c \in 1..Len(test_categories) : StoppedAtFirstFailure(c)
    /\ tpc = "fatal" => (results = <<>> /\ all_passed = Some(FALSE))

EveryCheckRecordedWitness ==
    /\ tpc = "returned"
    /\ GetDefault(test_config[1], "continue_on_failure", TRUE)
    /\ Len(results) = MaxChecks
    /\ ~results[1].passed
    /\ results[2].error_message # None
    /\ results[MaxChecks].passed
    /\ all_passed = Some(FALSE)

\* The papers table holds one row, and its publication year is 2050.
OneRowOf2050 ==
    \E id \in DOMAIN papers :
        DOMAIN papers = {id} /\ papers[id].publication_year = Some(2050)

\* C21: the invalid-publication-years check of the quality tests, executed
\* without error against a papers table holding one row with
\* publication_year 2050, counts exactly one failure and does not pass.
Year2050Flagged ==
    [][(/\ OneRowOf2050
        /\ simple_tests # None
        /\ simple_tests[1].step = 3
        /\ simple_tests' # simple_tests
        /\ ~simple_tests'[1].error)
          => /\ simple_tests'[1].counts[4] = 1
             /\ simple_tests'[1].tests_failed = simple_tests[1].tests_failed + 1
             /\ simple_tests'[1].total_issues > 0
      ]_vars

\* C22: after any sequence of loads of any raw records, every stored paper
\* has cited_by_count >= 0 and referenced_works_count >= 0.
CountsNonNegative ==
    \A id \in DOMAIN papers :
        /\ papers[id].cited_by_count # None => papers[id].cited_by_count[1] >= 0
        /\ papers[id].referenced_works_count # None
              => papers[id].referenced_works_count[1] >= 0

\* C23: every author row that normalization hands to the author write has
\* a display name, and so has every stored author.
AuthorNamesNonNull ==
    /\ pc = "authors" =>
          \A i \in 1..Len(AuthorsBatch(rec[1])) :
              AuthorsBatch(rec[1])[i].display_name # None
    /\ \A id \in DOMAIN authors : authors[id].display_name # None

\* The keys of `keys` that have a row in `table`.
StoredAmong(table, keys) == {i \in 1..Len(keys) : keys[i] \in DOMAIN table}

\* C24: a committed write of a batch of rows with distinct identities
\* raises the entity's inserted counter by the number of identities that
\* were not stored before and its updated counter by the number that were,
\* whatever the size of the batch (the authors and the authorships).
BatchCountsEveryRow ==
    [][/\ (pc = "authors" /\ pc' = "paper" /\ AuthorsBatch(rec[1]) # <<>>) =>
            LET keys == AuthorKeys(AuthorsBatch(rec[1]))
                were == Cardinality(StoredAmong(authors, keys))
            IN  /\ stats'.authors_updated = stats.authors_updated + were
                /\ stats'.authors_inserted
                     = stats.authors_inserted + (Len(keys) - were)
       /\ (pc = "links" /\ paper_authors' # paper_authors) =>
            LET keys == PaperAuthorKeys(PaperAuthorsBatch(rec[1]))
                were == Cardinality(StoredAmong(paper_authors, keys))
            IN  /\ stats'.paper_authors_updated
                     = stats.paper_authors_updated + were
                /\ stats'.paper_authors_inserted
                     = stats.paper_authors_inserted + (Len(keys) - were)
      ]_vars

\* C25: between two records of a load, and at its end, the records counted
\* as processed and the records counted as failed are together the records
\* process_paper was called on: each record is counted once.
EachRecordCountedOnce ==
    pc \in {"next", "done", "finished"} =>
        stats.total_papers_processed + stats.papers_failed = n

RECURSIVE Pow2(_)
Pow2(k) == IF k = 0 THEN 1 ELSE 2 * Pow2(k - 1)

\* The waits so far are initial_delay, 2 * initial_delay, ...: before call
\* k + 1 the wait is initial_delay * 2^(k-1); func was called at most
\* max_retries times, and once more than there were waits.
BackoffSoFar ==
    /\ calls <= max_retries
    /\ \A k \in 1..Len(waits) : waits[k] = initial_delay * Pow2(k - 1)
    /\ rpc \in {"returned", "raised", "sleep"} /\ calls > 0
          => Len(waits) = calls - 1
    /\ rpc = "raised" => (calls = max_retries /\ retry_result = Some(max_retries))

ZeroRecordsFailRun ==
    fetched = Some(<<>>) =>
        /\ stage \notin {"loading", "validate", "finish"}
        /\ \A i \in 1..Len(trace) :
              /\ trace[i][1] # "VALIDATE"
              /\ trace[i][1] = "LOAD" => ~trace[i][2]
        /\ stage = "exit" => exit_code = Some(1)

ZeroRecordsWitness ==
    /\ fetched = Some(<<>>)
    /\ stage = "exit"
    /\ exit_code = Some(1)
    /\ trace = <<<<"FETCH", TRUE>>, <<"SCHEMA_ENSURE", TRUE>>, <<"LOAD", FALSE>>>>
    /\ ~flags[1].dry_run

\* No key occurs twice in the list.
AllDistinct(keys) == \A i, j \in 1..Len(keys) : i # j => keys[i] # keys[j]

\* C28: every batch process_paper hands to the store has at most one row
\* per identity: the author batch one row per author id, the paper batch
\* one row, the authorship batch one row per (paper id, author id) pair.
BatchesHaveDistinctKeys ==
    pc \in {"authors", "paper", "links"} =>
        /\ AllDistinct(AuthorKeys(AuthorsBatch(rec[1])))
        /\ Len(PapersBatch(rec[1])) = 1
        /\ AllDistinct(PaperAuthorKeys(PaperAuthorsBatch(rec[1])))

BatchesHaveDistinctKeysWitness ==
    /\ pc = "links"
    /\ Len(Authorships(rec[1])) = MaxAuthorships
    /\ Len(AuthorsBatch(rec[1])) = 1
    /\ Len(PaperAuthorsBatch(rec[1])) = 1
    /\ "A1" \in DOMAIN authors

\* C29: every authorship row process_paper produces from a record has an
\* author row with the same author id in the author batch produced from
\* the same record.
AuthorshipsHaveAuthorRows ==
    pc \in {"authors", "paper", "links"} =>
        \A i \in 1..Len(PaperAuthorsBatch(rec[1])) :
            \E j \in 1..Len(AuthorsBatch(rec[1])) :
                AuthorsBatch(rec[1])[j].author_id
                  = PaperAuthorsBatch(rec[1])[i].author_id

\* No category of the battery has a query.
NoCheckLoaded == \A c \in 1..Len(queries) : queries[c] = 0

\* The VALIDATE stage of the process that has exited was the last stage
\* executed, with this result, and the process ended with this code.
ValidateEnded(result, code) ==
    (stage = "exit" /\ ~interrupted) =>
        /\ trace[Len(trace)] = <<"VALIDATE", result>>
        /\ exit_code = Some(code)

\* C30 as stated: a validation run that found no query in any category
\* records no result and returns True, and the VALIDATE stage that ran it
\* passes, so the pipeline run, unless interrupted, ends with exit code 0.
NoChecksPasses ==
    (tpc \in {"returned", "raised", "fatal"} /\ NoCheckLoaded) =>
        /\ results = <<>>
        /\ tpc = "returned"
        /\ all_passed = Some(TRUE)
        /\ ValidateEnded(TRUE, 0)

\* C30: a validation run that reached the store, found no query in any
\* category, and has a configuration that is a mapping whose output is
\* absent or a mapping, records no result and returns True, and the
\* VALIDATE stage that ran it passes, so the pipeline run, unless
\* interrupted, ends with exit code 0; a run that could not reach the store
\* records no result and returns False before it looks for any check, and
\* VALIDATE fails.
NoChecksPassesWhenRunnable ==
    /\ (tpc \in {"returned", "raised"} /\ NoCheckLoaded
           /\ ~ReportRaises(test_config)) =>
          /\ results = <<>>
          /\ tpc = "returned"
          /\ all_passed = Some(TRUE)
          /\ ValidateEnded(TRUE, 0)
    /\ (tpc = "fatal" /\ NoCheckLoaded) =>
          /\ results = <<>>
          /\ all_passed = Some(FALSE)
          /\ ValidateEnded(FALSE, IF ShouldForceStore(flags[1]) THEN 0 ELSE 1)

\* A process has exited with code 0, not forced, after a validator whose
\* configuration has a mapping for its output found no query at all.
NoChecksPassesWitness ==
    /\ tpc = "returned"
    /\ queries # <<>>
    /\ NoCheckLoaded
    /\ results = <<>>
    /\ test_config # None
    /\ Get(test_config[1], "output") = "mapping"
    /\ stage = "exit"
    /\ trace[Len(trace)] = <<"VALIDATE", TRUE>>
    /\ ~ShouldForceStore(flags[1])
    /\ exit_code = Some(0)

=============================================================================
